---- MODULE Spec2Model ----
(***************************************************************************)
(* State-machine model of the AutoOrganize knowledge engine:               *)
(*   - libs/search         SearchEngine (in-memory TF-IDF index)           *)
(*   - rust-core           AutoOrganizeCore, Database, FullTextIndexer,    *)
(*                         IngestionEngine, FileWatcher                    *)
(*   - libs/file-watcher   FileWatcher (std threads and channels)          *)
(* Each subsystem has its own variables, actions and specification.        *)
(***************************************************************************)
EXTENDS Integers, Sequences, FiniteSets, TLC

VARIABLES
    \* libs/search SearchEngine fields (src/libs/search/src/lib.rs:76-82)
    documents, inverted_index, document_frequencies, total_documents,
    \* the last call made on the SearchEngine and the number of calls so far
    last_call, n_ops,
    \* rust-core FileWatcher fields (src/rust-core/file-watcher/src/lib.rs:33-40)
    fw_watch_paths, fw_watcher, fw_is_running, fw_event_sender, fw_task,
    \* the unbounded mpsc channel between the notify closure and the task
    fw_queue,
    \* where a pending stop() call stands, and the last call with its result
    fw_stop_pc, fw_last_call,
    \* events accepted by event_sender.send and events handed to the callback
    \* since the last successful start()
    fw_sent, fw_delivered,
    \* number of OS events so far, wall clock in ticks, directories on disk
    n_events, clock, dirs_exist,
    \* libs/file-watcher FileWatcher fields (src/libs/file-watcher/src/lib.rs:35-40)
    lw_watcher, lw_event_sender, lw_watched_paths,
    \* per start_watching call: its two channels and its two threads
    lw_threads,
    \* events handed to a callback, the last call with its result, OS results so far
    lw_delivered, lw_last_call, lw_n_events,
    \* AutoOrganizeCore fields (src/rust-core/autoorganize-core/src/lib.rs:103-112)
    core_initialized, core_file_watcher,
    \* the SQLite file: whether the schema exists, whether the linked SQLite
    \* enforces foreign keys, and the rows of four tables
    db_schema, db_foreign_keys, db_documents, db_documents_fts,
    db_document_chunks, db_entity_mentions,
    \* FullTextIndexer fields (src/rust-core/search/src/indexer.rs:8-12)
    idx_term_frequencies, idx_document_frequencies, idx_document_count,
    \* files on disk, documents handed to on_document_processed, the number of
    \* Uuid::new_v4 values drawn, the ids the last search returned
    fs_files, ie_processed, uuid_next, core_search_results,
    \* the last call made on the core with its result, and the calls so far
    core_last_call, core_ops,
    \* GraphDatabase: the "relationships" column family of the RocksDB
    \* (src/backend/database/graph_store.rs:48-50), the last call, calls so far
    gdb_relationships, gdb_last_call, gdb_ops,
    \* entity extraction (src/rust-core/ingestion/src/extractors.rs): the text,
    \* the matches each regex pattern finds in it, the candidates of the
    \* rule-based extractor, the entities returned, the call that returned them
    ee_text, ee_pattern_matches, ee_rule_entities, ee_entities, ee_last_call,
    \* chunking (src/rust-core/ingestion/src/lib.rs:258-301): the words of the
    \* content, the configuration, whether the build checks integer overflow,
    \* and what create_chunks returned
    ck_content, ck_words, ck_config, ck_overflow_checks, ck_result,
    \* IngestionEngine (src/rust-core/ingestion/src/lib.rs:101-106): the
    \* entries WalkDir yields for the directory "/d", the engine's config,
    \* whether the build checks integer overflow, the notifications the
    \* callback received during the last call, that call, the calls so far
    ing_entries, ing_config, ing_overflow_checks, ing_notified, ing_last_call,
    ing_ops,
    \* libs/encryption EncryptionEngine.master_key
    \* (src/libs/encryption/src/lib.rs:27-30), the EncryptionResult in transit,
    \* the key, plaintext and result of the encrypt_data call that made it,
    \* the last call with its result, the calls so far
    enc_master_key, enc_message, enc_origin, enc_last_call, enc_ops,
    \* rust-core InvertedIndex.index (src/rust-core/search/src/indexer.rs:133-135),
    \* the tokens of the last add_document per document id, the last call,
    \* the calls so far
    inv_index, inv_documents, inv_last_call, inv_ops,
    \* AutoOrganizeCore (src/rust-core/autoorganize-core/src/lib.rs:103-112): the holders of the database RwLock and of the initialized RwLock, each client thread's position in its call, the number of calls made
    lk_database, lk_initialized, lk_pc, lk_ops,
    \* libs/encryption FFI (src/libs/encryption/src/lib.rs:316-451): the engines allocated for the handles that are alive, the static ENGINE_INSTANCE, the last FFI call, the number of calls
    ffi_engines, ffi_instance, ffi_last_call, ffi_ops

searchVars == <<documents, inverted_index, document_frequencies, total_documents,
                last_call, n_ops>>

watcherVars == <<fw_watch_paths, fw_watcher, fw_is_running, fw_event_sender,
                 fw_task, fw_queue, fw_stop_pc, fw_last_call, fw_sent, fw_delivered,
                 n_events, clock, dirs_exist>>

libsWatcherVars == <<lw_watcher, lw_event_sender, lw_watched_paths, lw_threads,
                     lw_delivered, lw_last_call, lw_n_events>>

databaseVars == <<db_schema, db_foreign_keys, db_documents, db_documents_fts,
                  db_document_chunks, db_entity_mentions>>

indexerVars == <<idx_term_frequencies, idx_document_frequencies,
                 idx_document_count>>

coreVars == <<core_initialized, core_file_watcher, databaseVars, indexerVars,
              fs_files, ie_processed, uuid_next, core_search_results,
              core_last_call, core_ops>>

graphVars == <<gdb_relationships, gdb_last_call, gdb_ops>>

extractVars == <<ee_text, ee_pattern_matches, ee_rule_entities, ee_entities,
                 ee_last_call>>

chunkVars == <<ck_content, ck_words, ck_config, ck_overflow_checks, ck_result>>

engineVars == <<ing_entries, ing_config, ing_overflow_checks, ing_notified,
                ing_last_call, ing_ops>>

ingestVars == <<extractVars, chunkVars, engineVars>>

encryptVars == <<enc_master_key, enc_message, enc_origin, enc_last_call,
                 enc_ops>>

invertedVars == <<inv_index, inv_documents, inv_last_call, inv_ops>>

lockVars == <<lk_database, lk_initialized, lk_pc, lk_ops>>

ffiVars == <<ffi_engines, ffi_instance, ffi_last_call, ffi_ops>>

vars == <<searchVars, watcherVars, libsWatcherVars, coreVars, graphVars,
          ingestVars, encryptVars,
    invertedVars,
    lockVars,
    ffiVars>>

nonSearchVars == <<watcherVars, libsWatcherVars, coreVars, graphVars, ingestVars,
    encryptVars,
    invertedVars,
    lockVars,
    ffiVars>>

nonWatcherVars == <<searchVars, libsWatcherVars, coreVars, graphVars, ingestVars,
    encryptVars,
    invertedVars,
    lockVars,
    ffiVars>>

nonLibsWatcherVars == <<searchVars, watcherVars, coreVars, graphVars, ingestVars,
    encryptVars,
    invertedVars,
    lockVars,
    ffiVars>>

\* the core owns a rust-core FileWatcher, so its actions name watcherVars
nonCoreVars == <<searchVars, libsWatcherVars, graphVars, ingestVars,
    encryptVars,
    invertedVars,
    lockVars,
    ffiVars>>

nonGraphVars == <<searchVars, watcherVars, libsWatcherVars, coreVars, ingestVars,
    encryptVars,
    invertedVars,
    lockVars,
    ffiVars>>

nonIngestVars == <<searchVars, watcherVars, libsWatcherVars, coreVars, graphVars,
                   encryptVars,
    invertedVars,
    lockVars,
    ffiVars>>

nonEncryptVars == <<searchVars, watcherVars, libsWatcherVars, coreVars, graphVars,
                    ingestVars,
    invertedVars,
    lockVars,
    ffiVars>>

nonInvertedVars == <<searchVars, watcherVars, libsWatcherVars, coreVars,
    graphVars, ingestVars, encryptVars,
    lockVars,
    ffiVars>>

nonLockVars == <<searchVars, watcherVars, libsWatcherVars, coreVars,
    graphVars, ingestVars, encryptVars, invertedVars,
    ffiVars>>

\* what a step of a core call under its locks leaves alone
nonCoreLockVars == <<searchVars, watcherVars, libsWatcherVars,
    graphVars, ingestVars, encryptVars, invertedVars,
    ffiVars>>

nonFfiVars == <<searchVars, watcherVars, libsWatcherVars, coreVars,
    graphVars, ingestVars, encryptVars, invertedVars, lockVars>>

(***************************************************************************)
(* Generic map helpers (HashMap insert / remove).                          *)
(***************************************************************************)
MapPut(m, k, v) == [x \in (DOMAIN m) \cup {k} |-> IF x = k THEN v ELSE m[x]]

MapRemove(m, k) == [x \in (DOMAIN m) \ {k} |-> m[x]]

EmptyMap == [x \in {} |-> 0]

Range(s) == {s[i] : i \in DOMAIN s}

(***************************************************************************)
(* Bounds of the libs/search model.                                        *)
(***************************************************************************)
\* longest document content, in whitespace-separated words
MaxWords == 2

\* number of add_document / remove_document calls explored
MaxOps == 3

DocIds == {"d1", "d2"}

\* raw whitespace-separated words as they occur in titles and contents
RawWords == {"Rust", "go.", "the"}

Titles == {<<>>, <<"Rust">>}

Contents == UNION {[1..n -> RawWords] : n \in 0..MaxWords}

\* Document (id, title, content); created_at, size and metadata play no part
\* in indexing
Documents == [id : DocIds, title : Titles, content : Contents]

(***************************************************************************)
(* libs/search: tokenize and the per-document statistics.                  *)
(***************************************************************************)
stopwords == {"the", "and", "or", "but", "in", "on", "at", "to", "for", "of",
              "with", "by", "a", "an"}

\* str::to_lowercase on the words of the model's vocabulary
to_lowercase(w) ==
    CASE w = "Rust" -> "rust"
      [] w = "AND" -> "and"
      [] w = "OR" -> "or"
      [] OTHER -> w

\* str::trim_matches(|c| !c.is_alphanumeric()) on the (lowercased) vocabulary
trim_matches(w) ==
    CASE w = "go." -> "go"
      [] w = "r*" -> "r"
      [] OTHER -> w

tokenize(text) ==
    LET words == [i \in DOMAIN text |-> trim_matches(to_lowercase(text[i]))]
    IN  SelectSeq(words, LAMBDA w : w # "" /\ w \notin stopwords)

\* term -> <<occurrences, total tokens>>: the f64 quotient count / total
calculate_term_frequencies(tokens) ==
    [t \in Range(tokens) |->
        <<Cardinality({i \in DOMAIN tokens : tokens[i] = t}), Len(tokens)>>]

\* term -> ascending list of (0-based) token positions
build_word_positions(tokens) ==
    [t \in Range(tokens) |->
        LET idx == SelectSeq([i \in DOMAIN tokens |-> i],
                             LAMBDA i : tokens[i] = t)
        IN  [k \in DOMAIN idx |-> idx[k] - 1]]

\* all_tokens = tokenize(content) ++ tokenize(title)
all_tokens(document) == tokenize(document.content) \o tokenize(document.title)

(***************************************************************************)
(* libs/search: SearchEngine::new, add_document, remove_document.          *)
(***************************************************************************)
SearchEngineNew ==
    /\ documents = EmptyMap
    /\ inverted_index = EmptyMap
    /\ document_frequencies = EmptyMap
    /\ total_documents = 0
    /\ last_call = [op |-> "new"]
    /\ n_ops = 0

add_document(document) ==
    LET doc_id == document.id
        tokens == all_tokens(document)
        term_frequencies == calculate_term_frequencies(tokens)
        word_positions == build_word_positions(tokens)
        terms == DOMAIN term_frequencies
        indexed_doc == [document |-> document,
                        term_frequencies |-> term_frequencies,
                        word_positions |-> word_positions]
    IN  /\ n_ops < MaxOps
        /\ inverted_index' =
             [t \in (DOMAIN inverted_index) \cup terms |->
                (IF t \in DOMAIN inverted_index THEN inverted_index[t] ELSE {})
                \cup (IF t \in terms THEN {doc_id} ELSE {})]
        /\ document_frequencies' =
             [t \in (DOMAIN document_frequencies) \cup terms |->
                (IF t \in DOMAIN document_frequencies
                    THEN document_frequencies[t] ELSE 0)
                + (IF t \in terms THEN 1 ELSE 0)]
        /\ documents' = MapPut(documents, doc_id, indexed_doc)
        /\ total_documents' = IF doc_id \in DOMAIN documents
                                 THEN total_documents
                                 ELSE total_documents + 1
        /\ last_call' = [op |-> "add_document", document |-> document,
                         result |-> "Ok"]
        /\ n_ops' = n_ops + 1
        /\ UNCHANGED nonSearchVars

remove_document(document_id) ==
    /\ n_ops < MaxOps
    /\ IF document_id \in DOMAIN documents
          THEN LET terms == DOMAIN documents[document_id].term_frequencies
                   shrunk == [t \in DOMAIN inverted_index |->
                                IF t \in terms
                                   THEN inverted_index[t] \ {document_id}
                                   ELSE inverted_index[t]]
                   counted == [t \in DOMAIN document_frequencies |->
                                IF t \in terms
                                   THEN document_frequencies[t] - 1
                                   ELSE document_frequencies[t]]
               IN  /\ documents' = MapRemove(documents, document_id)
                   /\ total_documents' = total_documents - 1
                   /\ inverted_index' =
                        [t \in {u \in DOMAIN shrunk : shrunk[u] # {}} |-> shrunk[t]]
                   /\ document_frequencies' =
                        [t \in {u \in DOMAIN counted : counted[u] # 0} |-> counted[t]]
                   /\ last_call' = [op |-> "remove_document",
                                    document_id |-> document_id, result |-> "Ok"]
          ELSE /\ UNCHANGED <<documents, total_documents, inverted_index,
                             document_frequencies>>
               /\ last_call' = [op |-> "remove_document",
                                document_id |-> document_id, result |-> "Err"]
    /\ n_ops' = n_ops + 1
    /\ UNCHANGED nonSearchVars

InitSearch == SearchEngineNew

NextSearch ==
    \/ \E document \in Documents : add_document(document)
    \/ \E document_id \in DocIds : remove_document(document_id)

(***************************************************************************)
(* rust-core FileWatcher (src/rust-core/file-watcher/src/lib.rs).          *)
(***************************************************************************)
\* number of OS events explored
MaxEvents == 3

\* number of clock ticks explored; one tick is half a coalescing window
MaxTicks == 2

\* the 200 ms coalescing window of the dispatch design, in clock ticks
CoalesceWindowTicks == 2

\* Option<T>: None is the empty sequence, Some(x) the sequence holding x
None == <<>>

Some(x) == <<x>>

Unwrap(opt) == opt[1]

\* directories a client may watch
Dirs == {"/a", "/b"}

\* files below a watched directory
FilePaths == {"/a/x.txt", "/a/z.md", "/a/y.tmp", "/a/build/x.txt"}

\* Path::file_name of the model's paths
file_name(path) ==
    CASE path = "/a/x.txt" -> "x.txt"
      [] path = "/a/z.md" -> "z.md"
      [] path = "/a/y.tmp" -> "y.tmp"
      [] path = "/a/build/x.txt" -> "x.txt"

\* file_name.starts_with('.') || file_name.starts_with('~')
starts_with_dot_or_tilde(name) == FALSE

\* file_name.ends_with(".tmp" | ".temp" | ".swp" | ".swo")
ends_with_temp_suffix(name) == name = "y.tmp"

\* path_str.contains("node_modules" | ".git" | "target" | "dist" | "build")
contains_system_dir(path) == path = "/a/build/x.txt"

should_ignore_file(path) ==
    LET name == file_name(path)
    IN  \/ starts_with_dot_or_tilde(name)
        \/ ends_with_temp_suffix(name)
        \/ contains_system_dir(path)

\* notify::EventKind values the OS source produces
NotifyKinds == {"Create(File)", "Modify(Data)", "Remove(File)",
                "Modify(Name(Both))", "Access"}

\* notify::Event: a kind and the paths it names (two for a rename)
NotifyEvents ==
    [kind : NotifyKinds, paths : {<<p>> : p \in FilePaths}]
    \cup {[kind |-> "Modify(Name(Both))", paths |-> <<"/a/x.txt", "/a/z.md">>],
          [kind |-> "Modify(Name(Both))", paths |-> <<"/a/z.md", "/a/x.txt">>]}

\* Option<FileWatcherEvent>; id stands for the fresh Uuid, now for Utc::now()
convert_notify_event(event, id, now) ==
    LET known == \/ event.kind \in {"Create(File)", "Modify(Data)", "Remove(File)"}
                 \/ event.kind = "Modify(Name(Both))" /\ Len(event.paths) >= 2
        event_type ==
            CASE event.kind = "Create(File)" -> [tag |-> "Created"]
              [] event.kind = "Modify(Data)" -> [tag |-> "Modified"]
              [] event.kind = "Remove(File)" -> [tag |-> "Deleted"]
              [] OTHER -> [tag |-> "Renamed", from |-> event.paths[1],
                           to |-> event.paths[2]]
        file_path == event.paths[1]
    IN  IF ~known \/ should_ignore_file(file_path)
           THEN None
           ELSE Some([id |-> id, event_type |-> event_type,
                      file_path |-> file_path, timestamp |-> now])

\* FileWatcher::new: every watch path exists, nothing is started
FileWatcherNew(watch_paths) ==
    /\ dirs_exist = Dirs
    /\ Range(watch_paths) \subseteq dirs_exist
    /\ fw_watch_paths = watch_paths
    /\ fw_watcher = None
    /\ fw_is_running = FALSE
    /\ fw_event_sender = "None"
    /\ fw_task = "none"
    /\ fw_queue = <<>>
    /\ fw_stop_pc = "idle"
    /\ fw_last_call = [op |-> "new", arg |-> "", result |-> "Ok"]
    /\ fw_sent = <<>>
    /\ fw_delivered = <<>>
    /\ n_events = 0
    /\ clock = 0

InitWatcher == \E watch_paths \in {<<>>, <<"/a">>} : FileWatcherNew(watch_paths)

\* a call of the public interface, its argument and the value it returned
Call(op, arg, result) == [op |-> op, arg |-> arg, result |-> result]

\* the receiver half lives in the spawned task
receiver_alive == fw_task = "running"

\* start(): takes the is_running write lock; no second start while running
FwStart ==
    /\ fw_stop_pc = "idle"
    /\ IF fw_is_running
          THEN /\ fw_last_call' = Call("start", "", "Ok")
               /\ UNCHANGED <<fw_watch_paths, fw_watcher, fw_is_running,
                              fw_event_sender, fw_task, fw_queue, fw_sent,
                              fw_delivered>>
          ELSE IF Range(fw_watch_paths) \subseteq dirs_exist
                  THEN /\ fw_event_sender' = "Some"
                       /\ fw_queue' = <<>>
                       /\ fw_watcher' = Some([watched |-> Range(fw_watch_paths)])
                       /\ fw_task' = "running"
                       /\ fw_is_running' = TRUE
                       /\ fw_sent' = <<>>
                       /\ fw_delivered' = <<>>
                       /\ fw_last_call' = Call("start", "", "Ok")
                       /\ UNCHANGED fw_watch_paths
                  \* watcher.watch(path)? fails: the sender is already stored,
                  \* the new watcher and the receiver are dropped on return
                  ELSE /\ fw_event_sender' = "Some"
                       /\ fw_last_call' = Call("start", "", "Err")
                       /\ UNCHANGED <<fw_watch_paths, fw_watcher, fw_is_running,
                                      fw_task, fw_queue, fw_sent, fw_delivered>>
    /\ UNCHANGED <<fw_stop_pc, n_events, clock, dirs_exist>>
    /\ UNCHANGED nonWatcherVars

\* stop() up to sender.closed().await: the write lock is taken; the try_lock
\* guard of the watcher is dropped, the watcher itself is not
FwStopBegin ==
    /\ fw_stop_pc = "idle"
    /\ IF ~fw_is_running
          THEN /\ fw_last_call' = Call("stop", "", "Ok")
               /\ UNCHANGED fw_stop_pc
          ELSE /\ fw_stop_pc' = IF fw_event_sender = "Some"
                                   THEN "closed_await" ELSE "set_false"
               /\ fw_last_call' = Call("stop", "", "pending")
    /\ UNCHANGED <<fw_watch_paths, fw_watcher, fw_is_running, fw_event_sender,
                   fw_task, fw_queue, fw_sent, fw_delivered, n_events, clock,
                   dirs_exist>>
    /\ UNCHANGED nonWatcherVars

\* stop() after sender.closed() resolved, which needs the receiver dropped
FwStopFinish ==
    /\ \/ fw_stop_pc = "closed_await" /\ ~receiver_alive
       \/ fw_stop_pc = "set_false"
    /\ fw_is_running' = FALSE
    /\ fw_stop_pc' = "idle"
    /\ fw_last_call' = Call("stop", "", "Ok")
    /\ UNCHANGED <<fw_watch_paths, fw_watcher, fw_event_sender, fw_task,
                   fw_queue, fw_sent, fw_delivered, n_events, clock, dirs_exist>>
    /\ UNCHANGED nonWatcherVars

\* is_running(): needs the read lock, which a pending stop() keeps taken
FwIsRunning ==
    /\ fw_stop_pc = "idle"
    /\ fw_last_call' = Call("is_running", "", IF fw_is_running THEN "true" ELSE "false")
    /\ UNCHANGED <<fw_watch_paths, fw_watcher, fw_is_running, fw_event_sender,
                   fw_task, fw_queue, fw_stop_pc, fw_sent, fw_delivered,
                   n_events, clock, dirs_exist>>
    /\ UNCHANGED nonWatcherVars

\* the closure handed to notify::recommended_watcher, run for one OS event
notify_closure(event) ==
    LET file_event == convert_notify_event(event, n_events + 1, clock)
    IN  IF file_event # None /\ receiver_alive
           THEN /\ fw_queue' = Append(fw_queue, Unwrap(file_event))
                /\ fw_sent' = Append(fw_sent, Unwrap(file_event))
           \* filtered, or send() fails on a closed channel and is logged
           ELSE UNCHANGED <<fw_queue, fw_sent>>

\* the notify thread runs the closure for one OS event below a watched path
NotifyEvent(event) ==
    /\ fw_watcher # None
    /\ Unwrap(fw_watcher).watched # {}
    /\ n_events < MaxEvents
    /\ n_events' = n_events + 1
    /\ notify_closure(event)
    /\ UNCHANGED <<fw_watch_paths, fw_watcher, fw_is_running, fw_event_sender,
                   fw_task, fw_stop_pc, fw_last_call, fw_delivered, clock,
                   dirs_exist>>
    /\ UNCHANGED nonWatcherVars

\* a receiver that yields the newest queued event first
ConsumeNewestFirst ==
    /\ fw_task = "running"
    /\ fw_queue # <<>>
    /\ fw_delivered' = Append(fw_delivered, fw_queue[Len(fw_queue)])
    /\ fw_queue' = SubSeq(fw_queue, 1, Len(fw_queue) - 1)
    /\ UNCHANGED <<fw_watch_paths, fw_watcher, fw_is_running, fw_event_sender,
                   fw_task, fw_stop_pc, fw_last_call, fw_sent, n_events, clock,
                   dirs_exist>>
    /\ UNCHANGED nonWatcherVars

\* one round of the task: recv() yields the oldest event, the callback runs
Consume ==
    /\ fw_task = "running"
    /\ fw_queue # <<>>
    /\ fw_delivered' = Append(fw_delivered, Head(fw_queue))
    /\ fw_queue' = Tail(fw_queue)
    /\ UNCHANGED <<fw_watch_paths, fw_watcher, fw_is_running, fw_event_sender,
                   fw_task, fw_stop_pc, fw_last_call, fw_sent, n_events, clock,
                   dirs_exist>>
    /\ UNCHANGED nonWatcherVars

\* the callback panics: the task unwinds and drops the receiver with whatever
\* it still holds
CallbackPanic ==
    /\ fw_task = "running"
    /\ fw_queue # <<>>
    /\ fw_delivered' = Append(fw_delivered, Head(fw_queue))
    /\ fw_queue' = <<>>
    /\ fw_task' = "panicked"
    /\ UNCHANGED <<fw_watch_paths, fw_watcher, fw_is_running, fw_event_sender,
                   fw_stop_pc, fw_last_call, fw_sent, n_events, clock, dirs_exist>>
    /\ UNCHANGED nonWatcherVars

\* 100 ms pass
Tick ==
    /\ clock < MaxTicks
    /\ clock' = clock + 1
    /\ UNCHANGED <<fw_watch_paths, fw_watcher, fw_is_running, fw_event_sender,
                   fw_task, fw_queue, fw_stop_pc, fw_last_call, fw_sent,
                   fw_delivered, n_events, dirs_exist>>
    /\ UNCHANGED nonWatcherVars

\* add_watch_path without the contains() test
FwAddWatchPathAlwaysPush(path) ==
    /\ fw_stop_pc = "idle"
    /\ IF path \notin dirs_exist
          THEN /\ fw_last_call' = Call("add_watch_path", path, "Err")
               /\ UNCHANGED <<fw_watch_paths, fw_watcher>>
          ELSE /\ fw_watch_paths' = Append(fw_watch_paths, path)
               /\ fw_last_call' = Call("add_watch_path", path, "Ok")
               /\ IF fw_is_running /\ fw_watcher # None
                     THEN fw_watcher' =
                            Some([watched |->
                                    Unwrap(fw_watcher).watched \cup {path}])
                     ELSE UNCHANGED fw_watcher
    /\ UNCHANGED <<fw_is_running, fw_event_sender, fw_task, fw_queue, fw_stop_pc,
                   fw_sent, fw_delivered, n_events, clock, dirs_exist>>
    /\ UNCHANGED nonWatcherVars

\* add_watch_path(path)
FwAddWatchPath(path) ==
    /\ fw_stop_pc = "idle"
    /\ IF path \notin dirs_exist
          THEN /\ fw_last_call' = Call("add_watch_path", path, "Err")
               /\ UNCHANGED <<fw_watch_paths, fw_watcher>>
          ELSE IF path \in Range(fw_watch_paths)
                  THEN /\ fw_last_call' = Call("add_watch_path", path, "Ok")
                       /\ UNCHANGED <<fw_watch_paths, fw_watcher>>
                  ELSE /\ fw_watch_paths' = Append(fw_watch_paths, path)
                       /\ fw_last_call' = Call("add_watch_path", path, "Ok")
                       /\ IF fw_is_running /\ fw_watcher # None
                             THEN fw_watcher' =
                                    Some([watched |->
                                            Unwrap(fw_watcher).watched \cup {path}])
                             ELSE UNCHANGED fw_watcher
    /\ UNCHANGED <<fw_is_running, fw_event_sender, fw_task, fw_queue, fw_stop_pc,
                   fw_sent, fw_delivered, n_events, clock, dirs_exist>>
    /\ UNCHANGED nonWatcherVars

\* Vec::remove(pos) for the first position holding path
remove_first(paths, path) ==
    LET pos == CHOOSE i \in DOMAIN paths :
                  paths[i] = path /\ \A j \in 1..(i - 1) : paths[j] # path
    IN  SubSeq(paths, 1, pos - 1) \o SubSeq(paths, pos + 1, Len(paths))

\* remove_watch_path(path); unwatch of a path the OS watcher does not hold fails
FwRemoveWatchPath(path) ==
    /\ fw_stop_pc = "idle"
    /\ IF path \in Range(fw_watch_paths)
          THEN /\ fw_watch_paths' = remove_first(fw_watch_paths, path)
               /\ IF fw_is_running /\ fw_watcher # None
                     THEN IF path \in Unwrap(fw_watcher).watched
                             THEN /\ fw_watcher' =
                                       Some([watched |->
                                               Unwrap(fw_watcher).watched \ {path}])
                                  /\ fw_last_call' = Call("remove_watch_path", path, "Ok")
                             ELSE /\ fw_last_call' = Call("remove_watch_path", path, "Err")
                                  /\ UNCHANGED fw_watcher
                     ELSE /\ fw_last_call' = Call("remove_watch_path", path, "Ok")
                          /\ UNCHANGED fw_watcher
          ELSE /\ fw_last_call' = Call("remove_watch_path", path, "Ok")
               /\ UNCHANGED <<fw_watch_paths, fw_watcher>>
    /\ UNCHANGED <<fw_is_running, fw_event_sender, fw_task, fw_queue, fw_stop_pc,
                   fw_sent, fw_delivered, n_events, clock, dirs_exist>>
    /\ UNCHANGED nonWatcherVars

\* the environment deletes or creates a directory
RemoveDir(path) ==
    /\ path \in dirs_exist
    /\ dirs_exist' = dirs_exist \ {path}
    /\ UNCHANGED <<fw_watch_paths, fw_watcher, fw_is_running, fw_event_sender,
                   fw_task, fw_queue, fw_stop_pc, fw_last_call, fw_sent,
                   fw_delivered, n_events, clock>>
    /\ UNCHANGED nonWatcherVars

CreateDir(path) ==
    /\ path \notin dirs_exist
    /\ dirs_exist' = dirs_exist \cup {path}
    /\ UNCHANGED <<fw_watch_paths, fw_watcher, fw_is_running, fw_event_sender,
                   fw_task, fw_queue, fw_stop_pc, fw_last_call, fw_sent,
                   fw_delivered, n_events, clock>>
    /\ UNCHANGED nonWatcherVars

\* the event pipeline of a watcher: start, stop, producer and consumer
NextWatcher ==
    \/ FwStart
    \/ FwStopBegin
    \/ FwStopFinish
    \/ FwIsRunning
    \/ \E event \in NotifyEvents : NotifyEvent(event)
    \/ Consume
    \/ CallbackPanic

\* the same with the passage of time
NextWatcherTimed == NextWatcher \/ Tick

\* the management of the watch paths
NextWatcherPaths ==
    \/ FwStart
    \/ FwStopBegin
    \/ FwIsRunning
    \/ \E path \in Dirs : FwAddWatchPath(path)
    \/ \E path \in Dirs : FwRemoveWatchPath(path)
    \/ \E path \in Dirs : RemoveDir(path)
    \/ \E path \in Dirs : CreateDir(path)

(***************************************************************************)
(* libs/search: SearchEngine::search in the Standard, Semantic and Boolean *)
(* modes.  A text is the sequence of its whitespace-separated words.       *)
(***************************************************************************)
\* documents of the corpus that is searched
SearchContents ==
    {<<"Rust">>, <<"go.">>, <<"zig">>, <<"Rust", "go.">>, <<"go.", "zig">>,
     <<"Rust", "zig", "zig">>}

SearchDocuments == [id : DocIds, title : {<<>>}, content : SearchContents]

\* query texts
QueryTexts ==
    {<<"Rust">>, <<"zig", "Rust">>, <<"Rust", "OR", "go.">>,
     <<"Rust", "AND", "go.">>, <<"Rust", "AND", "go.", "AND", "zig">>,
     <<"Rust", "OR", "go.", "AND", "zig">>,
     <<"Rust", "AND", "go.", "OR", "zig">>}

SearchModes == {"Standard", "Semantic", "Boolean"}

\* texts that are also searched for in the Fuzzy and Wildcard modes
PatternTexts == {<<"Rust">>, <<"zig">>, <<"r*">>}

AllSearchModes == SearchModes \cup {"Fuzzy", "Wildcard"}

\* SearchQuery; filters are empty and sort_by is None (Relevance).  Every
\* text is searched for without pagination, one text with it
SearchQueries ==
    [query : QueryTexts, limit : {None}, offset : {None},
     search_mode : SearchModes]
       \cup [query : {<<"zig", "Rust">>}, limit : {None, Some(1)},
             offset : {None, Some(1), Some(2)}, search_mode : {"Standard"}]
       \cup [query : PatternTexts, limit : {None}, offset : {None},
             search_mode : {"Fuzzy", "Wildcard"}]
       \cup [query : {<<>>}, limit : {None}, offset : {None},
             search_mode : AllSearchModes]

\* f64 scores are kept in units of 1 / ScoreUnit: thousandths for the
\* logarithm times TfScale, the least common multiple of the token counts
LnUnit == 1000

TfScale == 12

ScoreUnit == LnUnit * TfScale

\* f64::ln(n / d) in thousandths, for the quotients the model reaches
ln_milli(n, d) ==
    CASE n = d -> 0
      [] n = 2 /\ d = 1 -> 693
      [] n = 1 /\ d = 2 -> 0 - 693
      [] n = 1 /\ d = 3 -> 0 - 1099
      [] n = 2 /\ d = 3 -> 0 - 405
      [] n = 1 /\ d = 4 -> 0 - 1386
      [] n = 2 /\ d = 4 -> 0 - 693

\* calculate_idf, in thousandths; called for a stored document only, so
\* total_documents > 0
calculate_idf(term) ==
    LET df == IF term \in DOMAIN document_frequencies
                 THEN document_frequencies[term] ELSE 0
    IN  IF df = 0 THEN 0 ELSE ln_milli(total_documents, df)

\* tf * idf of one query term for one stored document, in score units
tf_idf(term, doc_id) ==
    LET tfs == documents[doc_id].term_frequencies
    IN  IF term \in DOMAIN tfs
           THEN (tfs[term][1] * (TfScale \div tfs[term][2])) * calculate_idf(term)
           ELSE 0

\* the scores map of standard_search: a stored document gets an entry for
\* every query term whose posting list names it
RECURSIVE standard_score(_, _)
standard_score(query_terms, doc_id) ==
    IF query_terms = <<>>
       THEN 0
       ELSE (IF /\ Head(query_terms) \in DOMAIN inverted_index
                /\ doc_id \in inverted_index[Head(query_terms)]
                THEN tf_idf(Head(query_terms), doc_id)
                ELSE 0)
            + standard_score(Tail(query_terms), doc_id)

standard_search_scores(query) ==
    LET query_terms == tokenize(query.query)
        scored == {d \in DOMAIN documents :
                     \E i \in DOMAIN query_terms :
                        /\ query_terms[i] \in DOMAIN inverted_index
                        /\ d \in inverted_index[query_terms[i]]}
    IN  [d \in scored |-> standard_score(query_terms, d)]

\* levenshtein_distance between a query term and an index term of the model
levenshtein_distance(a, b) ==
    CASE a = b -> 0
      [] {a, b} = {"rust", "go"} -> 4
      [] {a, b} = {"rust", "zig"} -> 4
      [] {a, b} = {"go", "zig"} -> 3
      [] {a, b} = {"r", "rust"} -> 3
      [] {a, b} = {"r", "go"} -> 2
      [] {a, b} = {"r", "zig"} -> 3
      [] {a, b} = {"programming", "programing"} -> 1
      [] {a, b} = {"no", "né"} -> 1
      [] {a, b} = {"programming", "no"} -> 10
      [] {a, b} = {"programming", "né"} -> 10
      [] {a, b} = {"programing", "no"} -> 9
      [] {a, b} = {"programing", "né"} -> 9

\* str::len of the model's terms: the length in bytes of the UTF-8 encoding
str_len(term) ==
    CASE term = "rust" -> 4
      [] term = "go" -> 2
      [] term = "zig" -> 3
      [] term = "r" -> 1
      [] term = "programming" -> 11
      [] term = "programing" -> 10
      [] term = "no" -> 2
      [] term = "né" -> 3

\* term.chars().count(), the length levenshtein_distance works with
chars_count(term) ==
    CASE term = "né" -> 2
      [] OTHER -> str_len(term)

\* max_len of fuzzy_search
max_len(query_term, index_term) ==
    IF str_len(query_term) > str_len(index_term)
       THEN str_len(query_term) ELSE str_len(index_term)

\* the index terms fuzzy_search takes for a query term: distance at most a
\* third of the longer length
similar_terms(query_term) ==
    {t \in DOMAIN inverted_index :
        levenshtein_distance(query_term, t) <= max_len(query_term, t) \div 3}

\* the least common multiple of the values of max_len: a fuzzy score is kept
\* in units of 1 / (ScoreUnit * SimScale)
SimScale == 660

\* similarity = 1.0 - distance / max_len, in units of 1 / SimScale
similarity(query_term, index_term) ==
    (max_len(query_term, index_term)
        - levenshtein_distance(query_term, index_term))
       * (SimScale \div max_len(query_term, index_term))

\* the scores map of fuzzy_search: tf * idf * similarity summed over the
\* query terms and the index terms taken for them
RECURSIVE fuzzy_score(_, _)
fuzzy_score(query_terms, doc_id) ==
    IF query_terms = <<>>
       THEN 0
       ELSE LET RECURSIVE over(_)
                over(ts) ==
                   IF ts = {}
                      THEN 0
                      ELSE LET t == CHOOSE x \in ts : TRUE
                           IN  (IF doc_id \in inverted_index[t]
                                   THEN tf_idf(t, doc_id)
                                           * similarity(Head(query_terms), t)
                                   ELSE 0)
                                  + over(ts \ {t})
            IN  over(similar_terms(Head(query_terms)))
                   + fuzzy_score(Tail(query_terms), doc_id)

fuzzy_search_scores(query) ==
    LET query_terms == tokenize(query.query)
        scored == {d \in DOMAIN documents :
                     \E i \in DOMAIN query_terms :
                        \E t \in similar_terms(query_terms[i]) :
                           d \in inverted_index[t]}
    IN  [d \in scored |-> fuzzy_score(query_terms, d)]

\* Regex::is_match of the pattern query.replace('*', ".*").replace('?', ".")
\* on an index term: an unanchored search, so the empty pattern is found in
\* every term, "r.*" in the terms that hold an r, "zig" in "zig", and "Rust"
\* (the pattern is not lowercased) or a text with a space in no term
regex_is_match(text, term) ==
    CASE text = <<>> -> TRUE
      [] text = <<"r*">> -> term = "rust"
      [] text = <<"zig">> -> term = "zig"
      [] OTHER -> FALSE

\* the scores map of wildcard_search
wildcard_search_scores(query) ==
    LET matched == {t \in DOMAIN inverted_index : regex_is_match(query.query, t)}
        scored == {d \in DOMAIN documents :
                     \E t \in matched : d \in inverted_index[t]}
        RECURSIVE over(_, _)
        over(ts, d) ==
           IF ts = {}
              THEN 0
              ELSE LET t == CHOOSE x \in ts : TRUE
                   IN  (IF d \in inverted_index[t] THEN tf_idf(t, d) ELSE 0)
                          + over(ts \ {t}, d)
    IN  [d \in scored |-> over(matched, d)]

\* str::contains(" and ") on the lowercased text: the word with a word on
\* either side
contains_word(words, sep) ==
    \E i \in DOMAIN words : 1 < i /\ i < Len(words) /\ words[i] = sep

\* str::split(" and "): the pieces between the separators, left to right
RECURSIVE split(_, _)
split(words, sep) ==
    IF contains_word(words, sep)
       THEN LET i == CHOOSE k \in DOMAIN words :
                        /\ 1 < k /\ k < Len(words) /\ words[k] = sep
                        /\ \A j \in 2..(k - 1) : words[j] # sep
            IN  <<SubSeq(words, 1, i - 1)>>
                   \o split(SubSeq(words, i + 1, Len(words)), sep)
       ELSE <<words>>

\* the posting list of a term, or none
postings(term) ==
    IF term \in DOMAIN inverted_index THEN inverted_index[term] ELSE {}

\* the inner loops of the AND branch: current_docs is intersected with the
\* posting list of every later term that has one
RECURSIVE intersect_found(_, _)
intersect_found(current_docs, other_terms) ==
    IF other_terms = <<>>
       THEN current_docs
       ELSE intersect_found(
               IF Head(other_terms) \in DOMAIN inverted_index
                  THEN current_docs \cap inverted_index[Head(other_terms)]
                  ELSE current_docs,
               Tail(other_terms))

\* concatenation of a sequence of sequences
RECURSIVE flatten(_)
flatten(seqs) == IF seqs = <<>> THEN <<>> ELSE Head(seqs) \o flatten(Tail(seqs))

\* the matching_docs of boolean_search
boolean_matching_docs(query) ==
    LET query_lower == [i \in DOMAIN query.query |-> to_lowercase(query.query[i])]
    IN  IF contains_word(query_lower, "and")
           THEN LET terms == split(query_lower, "and")
                    tokenized_terms == [i \in DOMAIN terms |-> tokenize(terms[i])]
                    first_terms == tokenized_terms[1]
                    other_terms == flatten(Tail(tokenized_terms))
                IN  UNION {intersect_found(inverted_index[first_terms[i]],
                                           other_terms) :
                              i \in {k \in DOMAIN first_terms :
                                        first_terms[k] \in DOMAIN inverted_index}}
           ELSE IF contains_word(query_lower, "or")
                   THEN UNION {postings(t) :
                                  t \in Range(flatten(
                                     [i \in DOMAIN split(query_lower, "or") |->
                                         tokenize(split(query_lower, "or")[i])]))}
                   ELSE UNION {postings(t) : t \in Range(tokenize(query.query))}

boolean_search_scores(query) ==
    [d \in boolean_matching_docs(query) |-> ScoreUnit]

\* the orders Vec::sort_by(b.score.partial_cmp(a.score)) can leave the
\* entries of the scores HashMap in: the sort is stable and the HashMap
\* iterates in any order
sorted_by_relevance(scores) ==
    LET ids == (DOMAIN scores) \cap (DOMAIN documents)
    IN  {[i \in DOMAIN p |-> [document_id |-> p[i], score |-> scores[p[i]]]] :
            p \in {q \in [1..Cardinality(ids) -> ids] :
                      /\ Range(q) = ids
                      /\ \A i \in 1..(Cardinality(ids) - 1) :
                            scores[q[i]] >= scores[q[i + 1]]}}

\* Option::unwrap_or
unwrap_or(opt, default) == IF opt = None THEN default ELSE Unwrap(opt)

\* the pagination of build_search_results
paginate(results, query) ==
    LET offset == unwrap_or(query.offset, 0)
        limit == unwrap_or(query.limit, Len(results))
        end == IF offset + limit < Len(results)
                  THEN offset + limit ELSE Len(results)
    IN  IF offset < Len(results)
           THEN SubSeq(results, offset + 1, end)
           ELSE <<>>

\* the results build_search_results may return for a scores map
build_search_results(scores, query) ==
    {paginate(results, query) : results \in sorted_by_relevance(scores)}

\* SearchEngine::search; the index is only read
search(query) ==
    /\ \/ /\ query.search_mode = "Semantic"
          /\ last_call' = [op |-> "search", query |-> query, result |-> "Err",
                           results |-> <<>>]
       \/ /\ query.search_mode # "Semantic"
          /\ \E results \in build_search_results(
                               CASE query.search_mode = "Standard" ->
                                       standard_search_scores(query)
                                 [] query.search_mode = "Fuzzy" ->
                                       fuzzy_search_scores(query)
                                 [] query.search_mode = "Boolean" ->
                                       boolean_search_scores(query)
                                 [] query.search_mode = "Wildcard" ->
                                       wildcard_search_scores(query),
                               query) :
                last_call' = [op |-> "search", query |-> query,
                              result |-> "Ok", results |-> results]
    /\ UNCHANGED <<documents, inverted_index, document_frequencies,
                   total_documents, n_ops>>
    /\ UNCHANGED nonSearchVars

NextSearchQuery ==
    \/ \E document \in SearchDocuments : add_document(document)
    \/ \E document_id \in DocIds : remove_document(document_id)
    \/ \E query \in SearchQueries : search(query)

\* the corpus and the queries of the Fuzzy mode next to the Standard mode: a
\* word of eleven characters, the same with one character missing, and two
\* words of two characters that differ in a character of two bytes
FuzzyContents ==
    {<<"programming">>, <<"no">>, <<"programming", "no">>, <<"programing">>}

FuzzyDocuments == [id : DocIds, title : {<<>>}, content : FuzzyContents]

FuzzyTexts == {<<"programing">>, <<"programming">>, <<"né">>, <<"no">>}

FuzzyQueries ==
    [query : FuzzyTexts, limit : {None}, offset : {None},
     search_mode : {"Standard", "Fuzzy"}]

NextFuzzy ==
    \/ \E document \in FuzzyDocuments : add_document(document)
    \/ \E query \in FuzzyQueries : search(query)
(***************************************************************************)
(* libs FileWatcher (src/libs/file-watcher/src/lib.rs).                    *)
(***************************************************************************)
\* number of start_watching calls explored
MaxStarts == 2

\* number of results the OS source hands to the notify closure
MaxFsEvents == 2

\* paths a client passes; "/missing" does not exist on disk
LwPaths == {"/a", "/missing"}

LwExistingPaths == {"/a"}

\* Result<Event, notify::Error> values handed to the closure
LwNotifyResults ==
    {[ok |-> TRUE, kind |-> "Create", paths |-> <<"/a/x.txt">>],
     [ok |-> TRUE, kind |-> "Remove", paths |-> <<"/a/z.md">>],
     [ok |-> TRUE, kind |-> "Create", paths |-> <<>>],
     [ok |-> FALSE, kind |-> "Error", paths |-> <<>>]}

\* Option<FileChangeEvent>; timestamp and metadata are left out
process_fs_event(event) ==
    IF event.paths = <<>>
       THEN None
       ELSE CASE event.kind = "Create" ->
                    Some([path |-> event.paths[1], event_type |-> "Created"])
              [] event.kind = "Modify" ->
                    Some([path |-> event.paths[1], event_type |-> "Modified"])
              [] event.kind = "Remove" ->
                    Some([path |-> event.paths[1], event_type |-> "Deleted"])
              [] OTHER -> None

\* FileWatcher::new
LibsFileWatcherNew ==
    /\ lw_watcher = None
    /\ lw_event_sender = "None"
    /\ lw_watched_paths = EmptyMap
    /\ lw_threads = <<>>
    /\ lw_delivered = <<>>
    /\ lw_last_call = Call("new", "", "Ok")
    /\ lw_n_events = 0

\* the channels and threads of the latest start_watching call
lw_current == Len(lw_threads)

\* dropping the RecommendedWatcher drops its closure and with it tx
drop_watcher(threads) ==
    IF lw_watcher # None
       THEN [threads EXCEPT ![Len(threads)].tx_alive = FALSE]
       ELSE threads

\* start_watching(callback): two channels, one watcher, two threads; the
\* receiver field is taken by the second thread at once
LwStartWatching ==
    /\ Len(lw_threads) < MaxStarts
    /\ \/ \* RecommendedWatcher::new fails
          /\ lw_last_call' = Call("start_watching", "", "Err")
          /\ UNCHANGED <<lw_watcher, lw_event_sender, lw_threads>>
       \/ /\ lw_watcher' = Some([watched |-> {}])
          /\ lw_event_sender' = "Some"
          /\ lw_threads' = Append(drop_watcher(lw_threads),
                                  [tx_alive |-> TRUE, raw |-> <<>>,
                                   events |-> <<>>, fs_pc |-> "loop",
                                   cb_pc |-> "recv"])
          /\ lw_last_call' = Call("start_watching", "", "Ok")
    /\ UNCHANGED <<lw_watched_paths, lw_delivered, lw_n_events>>
    /\ UNCHANGED nonLibsWatcherVars

\* watch_path(path, recursive)
LwWatchPath(path, recursive) ==
    /\ IF lw_watcher # None
          THEN IF path \in LwExistingPaths
                  THEN /\ lw_watcher' =
                            Some([watched |-> Unwrap(lw_watcher).watched \cup {path}])
                       /\ lw_watched_paths' = MapPut(lw_watched_paths, path, recursive)
                       /\ lw_last_call' = Call("watch_path", path, "Ok")
                  ELSE /\ lw_last_call' = Call("watch_path", path, "Err")
                       /\ UNCHANGED <<lw_watcher, lw_watched_paths>>
          ELSE /\ lw_last_call' = Call("watch_path", path, "Ok")
               /\ UNCHANGED <<lw_watcher, lw_watched_paths>>
    /\ UNCHANGED <<lw_event_sender, lw_threads, lw_delivered, lw_n_events>>
    /\ UNCHANGED nonLibsWatcherVars

\* unwatch_path(path); notify fails for a path it does not watch
LwUnwatchPath(path) ==
    /\ IF lw_watcher # None
          THEN IF path \in Unwrap(lw_watcher).watched
                  THEN /\ lw_watcher' =
                            Some([watched |-> Unwrap(lw_watcher).watched \ {path}])
                       /\ lw_watched_paths' = MapRemove(lw_watched_paths, path)
                       /\ lw_last_call' = Call("unwatch_path", path, "Ok")
                  ELSE /\ lw_last_call' = Call("unwatch_path", path, "Err")
                       /\ UNCHANGED <<lw_watcher, lw_watched_paths>>
          ELSE /\ lw_last_call' = Call("unwatch_path", path, "Ok")
               /\ UNCHANGED <<lw_watcher, lw_watched_paths>>
    /\ UNCHANGED <<lw_event_sender, lw_threads, lw_delivered, lw_n_events>>
    /\ UNCHANGED nonLibsWatcherVars

\* get_watched_paths(): the keys of watched_paths
get_watched_paths == DOMAIN lw_watched_paths

\* stop(), also run by Drop
LwStop ==
    /\ lw_watcher' = None
    /\ lw_event_sender' = "None"
    /\ lw_watched_paths' = EmptyMap
    /\ lw_threads' = drop_watcher(lw_threads)
    /\ lw_last_call' = Call("stop", "", "Ok")
    /\ UNCHANGED <<lw_delivered, lw_n_events>>
    /\ UNCHANGED nonLibsWatcherVars

\* the closure of the live watcher: tx.send(res)
LwFsEvent(res) ==
    /\ lw_watcher # None
    /\ Unwrap(lw_watcher).watched # {}
    /\ lw_n_events < MaxFsEvents
    /\ lw_n_events' = lw_n_events + 1
    /\ lw_threads' = [lw_threads EXCEPT ![lw_current].raw = Append(@, res)]
    /\ UNCHANGED <<lw_watcher, lw_event_sender, lw_watched_paths, lw_delivered,
                   lw_last_call>>
    /\ UNCHANGED nonLibsWatcherVars

\* one round of the file-system thread's loop: recv_timeout yields a result,
\* or Err for a timeout and for a disconnected channel alike, and the loop
\* continues
LwFsThreadStep(g) ==
    /\ g \in DOMAIN lw_threads
    /\ lw_threads[g].fs_pc = "loop"
    /\ IF lw_threads[g].raw # <<>>
          THEN LET res == Head(lw_threads[g].raw)
                   file_event == IF res.ok THEN process_fs_event(res) ELSE None
               IN  lw_threads' =
                      [lw_threads EXCEPT
                         ![g].raw = Tail(@),
                         ![g].events = IF file_event # None /\ lw_threads[g].cb_pc = "recv"
                                          THEN Append(@, Unwrap(file_event))
                                          ELSE @]
          ELSE UNCHANGED lw_threads
    /\ UNCHANGED <<lw_watcher, lw_event_sender, lw_watched_paths, lw_delivered,
                   lw_last_call, lw_n_events>>
    /\ UNCHANGED nonLibsWatcherVars

\* a Sender of the callback channel of start g is alive: the event_sender
\* field, or the clone the file-system thread owns
lw_sender_alive(g) ==
    \/ lw_event_sender = "Some" /\ g = lw_current
    \/ lw_threads[g].fs_pc = "loop"

\* one round of the callback thread: recv() yields an event, fails once every
\* Sender is gone, blocks otherwise
LwCallbackStep(g) ==
    /\ g \in DOMAIN lw_threads
    /\ lw_threads[g].cb_pc = "recv"
    /\ IF lw_threads[g].events # <<>>
          THEN /\ lw_delivered' = Append(lw_delivered, Head(lw_threads[g].events))
               /\ lw_threads' = [lw_threads EXCEPT ![g].events = Tail(@)]
          ELSE /\ ~lw_sender_alive(g)
               /\ lw_threads' = [lw_threads EXCEPT ![g].cb_pc = "exited"]
               /\ UNCHANGED lw_delivered
    /\ UNCHANGED <<lw_watcher, lw_event_sender, lw_watched_paths, lw_last_call,
                   lw_n_events>>
    /\ UNCHANGED nonLibsWatcherVars

NextLibsWatcher ==
    \/ LwStartWatching
    \/ \E path \in LwPaths, recursive \in BOOLEAN : LwWatchPath(path, recursive)
    \/ \E path \in LwPaths : LwUnwatchPath(path)
    \/ LwStop
    \/ \E res \in LwNotifyResults : LwFsEvent(res)
    \/ \E g \in 1..MaxStarts : LwFsThreadStep(g)
    \/ \E g \in 1..MaxStarts : LwCallbackStep(g)

(***************************************************************************)
(* rust-core: Database (autoorganize-core/src/database.rs), FullTextIndexer *)
(* and SearchEngine (search/src), IngestionEngine (ingestion/src) and      *)
(* AutoOrganizeCore (autoorganize-core/src/lib.rs, ffi.rs).                *)
(***************************************************************************)
\* number of client calls on the core explored
MaxCoreOps == 2

\* words of file and document contents
CoreWords == {"alpha", "Beta", "files"}

\* contents, as their whitespace-separated words
CoreContents == {<<"alpha", "Beta">>, <<"files">>}

\* rows of the documents table a client inserts: id is the primary key,
\* file_path is UNIQUE; the other columns play no part here
DocumentInfos ==
    {[id |-> "d1", file_path |-> "/a/x.txt", title |-> "x",
      content |-> <<"alpha", "Beta">>],
     [id |-> "d1", file_path |-> "/a/x.txt", title |-> "x",
      content |-> <<"files">>],
     [id |-> "d2", file_path |-> "/a/z.md", title |-> "z",
      content |-> <<"alpha", "Beta">>],
     [id |-> "d2", file_path |-> "/a/x.txt", title |-> "x",
      content |-> <<"files">>]}

CoreDocIds == {"d1", "d2"}

\* str::to_lowercase on the model's words
core_to_lowercase(word) == IF word = "Beta" THEN "beta" ELSE word

\* the English Snowball stemmer on the model's lowercase words
stem(word) == IF word = "files" THEN "file" ELSE word

\* tokenize_and_stem: unicode_words, to_lowercase, stem
tokenize_and_stem(content) ==
    [i \in DOMAIN content |-> stem(core_to_lowercase(content[i]))]

\* IndexedDocument as rebuild_index builds it from a documents row
IndexedDocumentOf(row) ==
    [id |-> row.id, title |-> row.title, content |-> row.content,
     tokens |-> tokenize_and_stem(row.content)]

(***************************************************************************)
(* FullTextIndexer: idx is [tf, df, count].                                *)
(***************************************************************************)
FullTextIndexerNew == [tf |-> EmptyMap, df |-> EmptyMap, count |-> 0]

\* usize::saturating_sub(1)
saturating_decKeep(n) == n
saturating_dec(n) == IF n > 0 THEN n - 1 ELSE 0

\* FullTextIndexer::remove_document
indexer_remove_document(idx, document_id) ==
    LET affected == {t \in DOMAIN idx.tf : document_id \in DOMAIN idx.tf[t]}
        tf1 == [t \in DOMAIN idx.tf |->
                  IF t \in affected THEN MapRemove(idx.tf[t], document_id)
                                    ELSE idx.tf[t]]
        df1 == [t \in DOMAIN idx.df |->
                  IF t \in affected THEN saturating_dec(idx.df[t])
                                    ELSE idx.df[t]]
        terms_to_remove ==
            {t \in affected : \/ t \in DOMAIN df1 /\ df1[t] = 0
                              \/ DOMAIN tf1[t] = {}}
    IN  [tf |-> [t \in (DOMAIN tf1) \ terms_to_remove |-> tf1[t]],
         df |-> [t \in (DOMAIN df1) \ terms_to_remove |-> df1[t]],
         count |-> IF idx.count > 0 THEN idx.count - 1 ELSE idx.count]

\* FullTextIndexer::index_document; a tf is kept as <<count, total_terms>>
indexer_index_document(idx, document) ==
    LET removed == indexer_remove_document(idx, document.id)
        terms == Range(document.tokens)
        total_terms == Len(document.tokens)
        term_count(t) ==
            Cardinality({i \in DOMAIN document.tokens : document.tokens[i] = t})
    IN  [tf |-> [t \in (DOMAIN removed.tf) \cup terms |->
                   IF t \in terms
                      THEN MapPut(IF t \in DOMAIN removed.tf
                                     THEN removed.tf[t] ELSE EmptyMap,
                                  document.id, <<term_count(t), total_terms>>)
                      ELSE removed.tf[t]],
         df |-> [t \in (DOMAIN removed.df) \cup terms |->
                   IF t \in terms
                      THEN (IF t \in DOMAIN removed.df THEN removed.df[t] ELSE 0) + 1
                      ELSE removed.df[t]],
         count |-> removed.count + 1]

\* the loop of rebuild_index over the rows of SELECT ... FROM documents
RECURSIVE index_rows(_, _)
index_rows(idx, rows) ==
    IF rows = {}
       THEN idx
       ELSE LET row == CHOOSE r \in rows : TRUE
            IN  index_rows(indexer_index_document(idx, IndexedDocumentOf(row)),
                           rows \ {row})

\* the FullTextIndexer of the core's SearchEngine
indexer == [tf |-> idx_term_frequencies, df |-> idx_document_frequencies,
            count |-> idx_document_count]

set_indexer(idx) ==
    /\ idx_term_frequencies' = idx.tf
    /\ idx_document_frequencies' = idx.df
    /\ idx_document_count' = idx.count

(***************************************************************************)
(* Database.                                                               *)
(***************************************************************************)
\* the row the documents_fts_insert trigger writes
fts_row(document) ==
    [content_id |-> document.id, title |-> document.title,
     content |-> document.content]

\* ON DELETE CASCADE of document_chunks and entity_mentions, enforced only
\* when the linked SQLite has foreign keys on (no PRAGMA is issued)
cascade(rows, deleted_ids) ==
    IF db_foreign_keys
       THEN {r \in rows : r.document_id \notin deleted_ids}
       ELSE rows

\* database files a core may be opened on: a new file, and a file of an
\* earlier run that holds one document with a chunk and an entity mention
ExistingDatabases ==
    {[schema |-> FALSE, documents |-> {}, documents_fts |-> <<>>,
      document_chunks |-> {}, entity_mentions |-> {}],
     [schema |-> TRUE,
      documents |-> {[id |-> "d1", file_path |-> "/a/x.txt", title |-> "x",
                      content |-> <<"alpha", "Beta">>]},
      documents_fts |-> <<[content_id |-> "d1", title |-> "x",
                           content |-> <<"alpha", "Beta">>]>>,
      document_chunks |-> {[id |-> "c1", document_id |-> "d1"]},
      entity_mentions |-> {[id |-> "m1", entity_id |-> "e1",
                            document_id |-> "d1"]}]}

\* Database::new on an existing or new file
DatabaseNew(file, foreign_keys) ==
    /\ db_schema = file.schema
    /\ db_foreign_keys = foreign_keys
    /\ db_documents = file.documents
    /\ db_documents_fts = file.documents_fts
    /\ db_document_chunks = file.document_chunks
    /\ db_entity_mentions = file.entity_mentions

\* AutoOrganizeCore::new on a disk without files
CoreNew(file, foreign_keys) ==
    /\ DatabaseNew(file, foreign_keys)
    /\ core_initialized = FALSE
    /\ core_file_watcher = "None"
    /\ idx_term_frequencies = EmptyMap
    /\ idx_document_frequencies = EmptyMap
    /\ idx_document_count = 0
    /\ fs_files = EmptyMap
    /\ ie_processed = <<>>
    /\ uuid_next = 1
    /\ core_search_results = <<>>
    /\ core_last_call = Call("new", "", "Ok")
    /\ core_ops = 0

InitCore ==
    \E file \in ExistingDatabases, foreign_keys \in BOOLEAN :
        CoreNew(file, foreign_keys)

\* a client call returns: the call is counted and recorded
returns(op, arg, result) ==
    /\ core_ops' = core_ops + 1
    /\ core_last_call' = Call(op, arg, result)

\* Database::insert_document: INSERT OR REPLACE deletes the rows that hold
\* the id or the file_path without firing the delete trigger (recursive
\* triggers are off), then inserts, which fires documents_fts_insert
DbInsertDocument(document) ==
    /\ core_ops < MaxCoreOps
    /\ IF ~db_schema
          THEN /\ returns("insert_document", document.id, "Err")
               /\ UNCHANGED databaseVars
          ELSE LET conflicts == {r \in db_documents :
                                    \/ r.id = document.id
                                    \/ r.file_path = document.file_path}
               IN  /\ db_documents' = (db_documents \ conflicts) \cup {document}
                   /\ db_documents_fts' =
                         Append(db_documents_fts, fts_row(document))
                   /\ db_document_chunks' =
                         cascade(db_document_chunks, {r.id : r \in conflicts})
                   /\ db_entity_mentions' =
                         cascade(db_entity_mentions, {r.id : r \in conflicts})
                   /\ returns("insert_document", document.id, "Ok")
                   /\ UNCHANGED <<db_schema, db_foreign_keys>>
    /\ UNCHANGED <<core_initialized, core_file_watcher, indexerVars, fs_files,
                   ie_processed, uuid_next, core_search_results>>
    /\ UNCHANGED <<watcherVars, nonCoreVars>>

\* AutoOrganizeCore::initialize: Database::initialize creates the schema,
\* SearchEngine::initialize runs rebuild_index
CoreInitialize ==
    /\ core_ops < MaxCoreOps
    /\ IF core_initialized
          THEN UNCHANGED <<core_initialized, db_schema, indexerVars>>
          ELSE /\ db_schema' = TRUE
               /\ set_indexer(index_rows(indexer, db_documents))
               /\ core_initialized' = TRUE
    /\ returns("initialize", "", "Ok")
    /\ UNCHANGED <<core_file_watcher, db_foreign_keys, db_documents,
                   db_documents_fts, db_document_chunks, db_entity_mentions,
                   fs_files, ie_processed, uuid_next, core_search_results>>
    /\ UNCHANGED <<watcherVars, nonCoreVars>>

\* SearchEngine::index_document of the core's search engine
SeIndexDocument(document) ==
    /\ core_ops < MaxCoreOps
    /\ set_indexer(indexer_index_document(indexer, IndexedDocumentOf(document)))
    /\ returns("index_document", document.id, "Ok")
    /\ UNCHANGED <<core_initialized, core_file_watcher, databaseVars, fs_files,
                   ie_processed, uuid_next, core_search_results>>
    /\ UNCHANGED <<watcherVars, nonCoreVars>>

\* SearchEngine::remove_document of the core's search engine
SeRemoveDocument(document_id) ==
    /\ core_ops < MaxCoreOps
    /\ set_indexer(indexer_remove_document(indexer, document_id))
    /\ returns("remove_document", document_id, "Ok")
    /\ UNCHANGED <<core_initialized, core_file_watcher, databaseVars, fs_files,
                   ie_processed, uuid_next, core_search_results>>
    /\ UNCHANGED <<watcherVars, nonCoreVars>>

\* SearchEngine::rebuild_index of the core's search engine: the SELECT fails
\* without the documents table, else every row is indexed into the index as
\* it stands
SeRebuildIndex ==
    /\ core_ops < MaxCoreOps
    /\ IF ~db_schema
          THEN /\ returns("rebuild_index", "", "Err")
               /\ UNCHANGED indexerVars
          ELSE /\ set_indexer(index_rows(indexer, db_documents))
               /\ returns("rebuild_index", "", "Ok")
    /\ UNCHANGED <<core_initialized, core_file_watcher, databaseVars, fs_files,
                   ie_processed, uuid_next, core_search_results>>
    /\ UNCHANGED <<watcherVars, nonCoreVars>>

\* FullTextIndexer::index_document and remove_document called on the indexer
\* itself, with IndexedDocuments of any tokens
MaxIndexOps == 3

IndexerDocuments ==
    [id : CoreDocIds,
     tokens : {<<>>, <<"alpha", "beta">>, <<"file">>, <<"alpha", "file", "alpha">>}]

IdxIndexDocument(document) ==
    /\ core_ops < MaxIndexOps
    /\ set_indexer(indexer_index_document(indexer, document))
    /\ returns("FullTextIndexer::index_document", document.id, "Ok")
    /\ UNCHANGED <<core_initialized, core_file_watcher, databaseVars, fs_files,
                   ie_processed, uuid_next, core_search_results>>
    /\ UNCHANGED <<watcherVars, nonCoreVars>>

\* the call record also names the terms whose posting map held the id
IdxRemoveDocument(document_id) ==
    /\ core_ops < MaxIndexOps
    /\ set_indexer(indexer_remove_document(indexer, document_id))
    /\ core_ops' = core_ops + 1
    /\ core_last_call' =
            [op |-> "FullTextIndexer::remove_document", arg |-> document_id,
             result |-> "Ok",
             removed_from |-> {t \in DOMAIN idx_term_frequencies :
                                document_id \in DOMAIN idx_term_frequencies[t]}]
    /\ UNCHANGED <<core_initialized, core_file_watcher, databaseVars, fs_files,
                   ie_processed, uuid_next, core_search_results>>
    /\ UNCHANGED <<watcherVars, nonCoreVars>>

NextIndexer ==
    \/ \E document \in IndexerDocuments : IdxIndexDocument(document)
    \/ \E document_id \in CoreDocIds : IdxRemoveDocument(document_id)

\* AutoOrganizeCore::delete_document: Database::delete_document only; the
\* delete trigger runs for a row that is deleted
CoreDeleteDocument(document_id) ==
    /\ core_ops < MaxCoreOps
    /\ IF ~db_schema
          THEN /\ returns("delete_document", document_id, "Err")
               /\ UNCHANGED databaseVars
          ELSE LET deleted == {r \in db_documents : r.id = document_id}
                   deleted_ids == {r.id : r \in deleted}
               IN  /\ db_documents' = db_documents \ deleted
                   /\ db_documents_fts' =
                         SelectSeq(db_documents_fts,
                                   LAMBDA row : row.content_id \notin deleted_ids)
                   /\ db_document_chunks' = cascade(db_document_chunks, deleted_ids)
                   /\ db_entity_mentions' = cascade(db_entity_mentions, deleted_ids)
                   /\ returns("delete_document", document_id, "Ok")
                   /\ UNCHANGED <<db_schema, db_foreign_keys>>
    /\ UNCHANGED <<core_initialized, core_file_watcher, indexerVars, fs_files,
                   ie_processed, uuid_next, core_search_results>>
    /\ UNCHANGED <<watcherVars, nonCoreVars>>

(***************************************************************************)
(* SearchEngine::search_documents: the FTS query of fts_search.            *)
(***************************************************************************)
\* query strings a client searches for
CoreQueries == {"alpha", "beta", "file"}

\* the tokens the FTS5 default tokenizer stores for a row: case-folded words
\* of the indexed columns title and content, not stemmed
fts_tokens(row) ==
    {core_to_lowercase(row.content[i]) : i \in DOMAIN row.content}
        \cup {core_to_lowercase(row.title)}

\* documents_fts JOIN documents ON content_id = id WHERE documents_fts MATCH
fts_search(query) ==
    {d.id : d \in {r \in db_documents :
                     \E i \in DOMAIN db_documents_fts :
                        /\ db_documents_fts[i].content_id = r.id
                        /\ core_to_lowercase(query)
                              \in fts_tokens(db_documents_fts[i])}}

\* SearchOptions a client passes; fuzzy_matching and include_snippets are
\* off
CoreSearchOptions ==
    [limit : {None, Some(1)}, offset : {None, Some(1)},
     semantic_search : BOOLEAN]

\* the rows of documents_fts JOIN documents WHERE documents_fts MATCH: one
\* per matching documents_fts row whose content_id is a documents id
fts_match_rows(query) ==
    {i \in DOMAIN db_documents_fts :
        /\ \E r \in db_documents : r.id = db_documents_fts[i].content_id
        /\ core_to_lowercase(query) \in fts_tokens(db_documents_fts[i])}

\* the orders a sort by an f64 score the model does not carry (bm25 rank,
\* freshness, popularity) can produce
Orders(S) == {q \in [1..Cardinality(S) -> S] : Range(q) = S}

\* fts_search: ORDER BY rank LIMIT limit, as the ids of the rows
fts_search_results(query, options) ==
    LET limit == unwrap_or(options.limit, 20)
    IN  {[k \in 1..(IF limit < Len(p) THEN limit ELSE Len(p)) |->
             db_documents_fts[p[k]].content_id] :
            p \in Orders(fts_match_rows(query))}

\* SearchEngine::semantic_search: Ok(Vec::new())
semantic_search == <<>>

\* deduplicate_results: the first result of every id is retained
deduplicate_results(results) ==
    LET first == [i \in DOMAIN results |->
                    \A j \in 1..(i - 1) : results[j] # results[i]]
        RECURSIVE retain(_)
        retain(i) == IF i > Len(results)
                        THEN <<>>
                        ELSE (IF first[i] THEN <<results[i]>> ELSE <<>>)
                                \o retain(i + 1)
    IN  retain(1)

\* SearchRanker::rank_results: recomputed scores, sorted highest first
rank_results(results) == Orders(Range(results))

\* the pagination of execute_search
execute_search_page(results, options) ==
    LET limit == unwrap_or(options.limit, 20)
        offset == unwrap_or(options.offset, 0)
        end == IF offset + limit < Len(results)
                  THEN offset + limit ELSE Len(results)
    IN  IF offset < Len(results)
           THEN SubSeq(results, offset + 1, end)
           ELSE <<>>

\* SearchEngine::execute_search: the result lists it may return
execute_search(query, options) ==
    UNION {{execute_search_page(ranked, options) :
               ranked \in rank_results(deduplicate_results(
                  fts_results \o (IF options.semantic_search
                                     THEN semantic_search ELSE <<>>)))} :
             fts_results \in fts_search_results(query, options)}

\* AutoOrganizeCore::search_documents = SearchEngine::search_documents: the
\* callback is handed the results of execute_search
CoreSearchDocuments(query, options) ==
    /\ core_ops < MaxCoreOps
    /\ IF ~db_schema
          THEN /\ returns("search_documents",
                          [text |-> query, options |-> options], "Err")
               /\ UNCHANGED core_search_results
          ELSE /\ core_search_results' \in execute_search(query, options)
               /\ returns("search_documents",
                          [text |-> query, options |-> options], "Ok")
    /\ UNCHANGED <<core_initialized, core_file_watcher, databaseVars,
                   indexerVars, fs_files, ie_processed, uuid_next>>
    /\ UNCHANGED <<watcherVars, nonCoreVars>>

(***************************************************************************)
(* IngestionEngine.                                                        *)
(***************************************************************************)
\* Path::extension of the model's paths
extension(path) ==
    CASE path = "/a/x.txt" -> "txt"
      [] path = "/a/z.md" -> "md"
      [] path = "/a/y.tmp" -> "tmp"
      [] path = "/a/build/x.txt" -> "txt"

\* Path::file_stem of the model's paths
file_stem(path) ==
    CASE path = "/a/x.txt" -> "x"
      [] path = "/a/z.md" -> "z"
      [] path = "/a/y.tmp" -> "y"
      [] path = "/a/build/x.txt" -> "x"

\* IngestionConfig::default().supported_extensions
supported_extensions ==
    {"txt", "md", "pdf", "docx", "html", "csv", "json", "xml", "rtf"}

is_supported_file(path) == extension(path) \in supported_extensions

\* validate_file: the file exists, is a file of allowed size and type
validate_file(path) == path \in DOMAIN fs_files /\ is_supported_file(path)

\* TextProcessor::can_process, the processor find_processor picks for text
can_process(path) == extension(path) \in {"txt", "md", "markdown", "rst"}

\* calculate_content_hash: DefaultHasher::new() has fixed keys, so the hash
\* is a function of the content
calculate_content_hash(content) == [hash_of |-> content]

\* TextProcessor::process followed by the steps of ingest_file; id is the
\* next Uuid::new_v4 value
process(path, id) ==
    [id |-> id, file_path |-> path, title |-> file_stem(path),
     content |-> fs_files[path],
     content_hash |-> calculate_content_hash(fs_files[path]),
     source_type |-> "file_system"]

\* AutoOrganizeCore::ingest_document = IngestionEngine::ingest_file: the
\* document is built and handed to the callback; store and index are not
\* written
CoreIngestDocument(file_path) ==
    /\ core_ops < MaxCoreOps
    /\ IF validate_file(file_path) /\ can_process(file_path)
          THEN /\ ie_processed' = Append(ie_processed, process(file_path, uuid_next))
               /\ uuid_next' = uuid_next + 1
               /\ returns("ingest_document", file_path, "Ok")
          ELSE /\ returns("ingest_document", file_path, "Err")
               /\ UNCHANGED <<ie_processed, uuid_next>>
    /\ UNCHANGED <<core_initialized, core_file_watcher, databaseVars,
                   indexerVars, fs_files, core_search_results>>
    /\ UNCHANGED <<watcherVars, nonCoreVars>>

(***************************************************************************)
(* File watching through the core.                                         *)
(***************************************************************************)
\* path lists a client passes to start_file_watching
CoreWatchPaths == {<<"/a">>, <<"/a", "/missing">>}

\* AutoOrganizeCore::start_file_watching: FileWatcher::new, start(), store;
\* the callback is the client's
CoreStartFileWatching(paths) ==
    /\ core_ops < MaxCoreOps
    /\ core_file_watcher = "None"
    /\ IF Range(paths) \subseteq dirs_exist
          THEN /\ fw_watch_paths' = paths
               /\ fw_event_sender' = "Some"
               /\ fw_queue' = <<>>
               /\ fw_watcher' = Some([watched |-> Range(paths)])
               /\ fw_task' = "running"
               /\ fw_is_running' = TRUE
               /\ fw_sent' = <<>>
               /\ fw_delivered' = <<>>
               /\ fw_last_call' = Call("start", "", "Ok")
               /\ core_file_watcher' = "Some"
               /\ returns("start_file_watching", "", "Ok")
          ELSE /\ returns("start_file_watching", "", "Err")
               /\ UNCHANGED <<fw_watch_paths, fw_event_sender, fw_queue,
                              fw_watcher, fw_task, fw_is_running, fw_sent,
                              fw_delivered, fw_last_call, core_file_watcher>>
    /\ UNCHANGED <<fw_stop_pc, n_events, clock, dirs_exist>>
    /\ UNCHANGED <<core_initialized, databaseVars, indexerVars, fs_files,
                   ie_processed, uuid_next, core_search_results>>
    /\ UNCHANGED nonCoreVars

\* files a program writes below "/a"
CoreFilePaths == {"/a/x.txt", "/a/y.tmp"}

\* another program writes a file; a started watcher on "/a" is told
FsWriteFile(path, content) ==
    /\ n_events < MaxEvents
    /\ n_events' = n_events + 1
    /\ fs_files' = MapPut(fs_files, path, content)
    /\ IF fw_watcher # None /\ "/a" \in Unwrap(fw_watcher).watched
          THEN notify_closure([kind |-> IF path \in DOMAIN fs_files
                                           THEN "Modify(Data)"
                                           ELSE "Create(File)",
                               paths |-> <<path>>])
          ELSE UNCHANGED <<fw_queue, fw_sent>>
    /\ UNCHANGED <<fw_watch_paths, fw_watcher, fw_is_running, fw_event_sender,
                   fw_task, fw_stop_pc, fw_last_call, fw_delivered, clock,
                   dirs_exist>>
    /\ UNCHANGED <<core_initialized, core_file_watcher, databaseVars,
                   indexerVars, ie_processed, uuid_next, core_search_results,
                   core_last_call, core_ops>>
    /\ UNCHANGED nonCoreVars

NextCore ==
    \/ CoreInitialize
    \/ \E document \in DocumentInfos : DbInsertDocument(document)
    \/ \E document \in DocumentInfos : SeIndexDocument(document)
    \/ \E document_id \in CoreDocIds : SeRemoveDocument(document_id)
    \/ SeRebuildIndex
    \/ \E document_id \in CoreDocIds : CoreDeleteDocument(document_id)
    \/ \E query \in CoreQueries, options \in CoreSearchOptions :
          CoreSearchDocuments(query, options)
    \/ \E file_path \in CoreFilePaths : CoreIngestDocument(file_path)
    \/ \E paths \in CoreWatchPaths : CoreStartFileWatching(paths)
    \/ \E path \in CoreFilePaths, content \in CoreContents :
          FsWriteFile(path, content)
    \/ Consume


(***************************************************************************)
(* AutoOrganizeCore: the locks its operations take around the database     *)
(* (src/rust-core/autoorganize-core/src/lib.rs:153-172, ffi.rs:83-129).    *)
(* Client threads call initialize, delete_document and get_document_by_id; *)
(* a call takes a guard, runs its database operation and drops the guard.  *)
(***************************************************************************)
\* number of calls the client threads make
MaxLockOps == 3

Threads == {"t1", "t2"}

NoThread == "none"

\* the calls a thread makes
LockCalls ==
    [op : {"initialize"}, arg : {""}]
       \cup [op : {"delete_document", "get_document_by_id"}, arg : CoreDocIds]

LockIdle == [op |-> "none", arg |-> "", at |-> "idle"]

\* RwLock::new: nobody holds a guard
RwLockNew == [readers |-> {}, writer |-> NoThread]

\* RwLock::read is granted while no write guard is held
read_ready(lock) == lock.writer = NoThread

\* RwLock::write is granted while no guard is held
write_ready(lock) == lock.writer = NoThread /\ lock.readers = {}

read_guard(lock, t) == [lock EXCEPT !.readers = @ \cup {t}]

write_guard(lock, t) == [lock EXCEPT !.writer = t]

\* dropping the guard a thread holds
drop_guard(lock, t) ==
    [readers |-> lock.readers \ {t},
     writer |-> IF lock.writer = t THEN NoThread ELSE lock.writer]

CoreLocksNew ==
    /\ lk_database = RwLockNew
    /\ lk_initialized = RwLockNew
    /\ lk_pc = [t \in Threads |-> LockIdle]
    /\ lk_ops = 0

lk_goto(t, at) == lk_pc' = [lk_pc EXCEPT ![t].at = at]

lk_return(t) == lk_pc' = [lk_pc EXCEPT ![t] = LockIdle]

lk_core_unchanged ==
    UNCHANGED <<core_file_watcher, fs_files, ie_processed, uuid_next,
                core_search_results, core_last_call, core_ops>>

\* a client thread enters a call
LkCall(t, call) ==
    /\ lk_pc[t].at = "idle"
    /\ lk_ops < MaxLockOps
    /\ lk_ops' = lk_ops + 1
    /\ lk_pc' = [lk_pc EXCEPT ![t] = [op |-> call.op, arg |-> call.arg,
                                      at |-> "called"]]
    /\ UNCHANGED <<lk_database, lk_initialized>>
    /\ UNCHANGED nonLockVars

\* initialize: self.initialized.write(); an initialized core returns at once
LkInitializedWrite(t) ==
    /\ lk_pc[t].op = "initialize" /\ lk_pc[t].at = "called"
    /\ write_ready(lk_initialized)
    /\ IF core_initialized
          THEN lk_return(t) /\ UNCHANGED lk_initialized
          ELSE /\ lk_initialized' = write_guard(lk_initialized, t)
               /\ lk_goto(t, "database_write")
    /\ UNCHANGED <<lk_database, lk_ops>>
    /\ UNCHANGED nonLockVars

\* initialize: self.database.write()
LkDatabaseWrite(t) ==
    /\ lk_pc[t].at = "database_write"
    /\ write_ready(lk_database)
    /\ lk_database' = write_guard(lk_database, t)
    /\ lk_goto(t, "db_initialize")
    /\ UNCHANGED <<lk_initialized, lk_ops>>
    /\ UNCHANGED nonLockVars

\* initialize: db.initialize() creates the schema; the block ends and the
\* write guard is dropped
LkDbInitialize(t) ==
    /\ lk_pc[t].at = "db_initialize"
    /\ db_schema' = TRUE
    /\ lk_database' = drop_guard(lk_database, t)
    /\ lk_goto(t, "search_initialize")
    /\ UNCHANGED <<lk_initialized, lk_ops>>
    /\ UNCHANGED <<core_initialized, indexerVars, db_foreign_keys, db_documents,
                   db_documents_fts, db_document_chunks, db_entity_mentions>>
    /\ lk_core_unchanged
    /\ UNCHANGED nonCoreLockVars

\* initialize: search_engine.initialize() runs rebuild_index, which takes
\* self.database.read()
LkRebuildIndexRead(t) ==
    /\ lk_pc[t].at = "search_initialize"
    /\ read_ready(lk_database)
    /\ lk_database' = read_guard(lk_database, t)
    /\ lk_goto(t, "rebuild_index")
    /\ UNCHANGED <<lk_initialized, lk_ops>>
    /\ UNCHANGED nonLockVars

\* initialize: rebuild_index indexes the rows of the documents table and
\* drops its guard; *initialized = true and the call returns
LkRebuildIndex(t) ==
    /\ lk_pc[t].at = "rebuild_index"
    /\ set_indexer(index_rows(indexer, db_documents))
    /\ core_initialized' = TRUE
    /\ lk_database' = drop_guard(lk_database, t)
    /\ lk_initialized' = drop_guard(lk_initialized, t)
    /\ lk_return(t)
    /\ UNCHANGED lk_ops
    /\ UNCHANGED databaseVars
    /\ lk_core_unchanged
    /\ UNCHANGED nonCoreLockVars

\* delete_document and get_document_by_id: self.database.read()
LkDatabaseRead(t) ==
    /\ lk_pc[t].op \in {"delete_document", "get_document_by_id"}
    /\ lk_pc[t].at = "called"
    /\ read_ready(lk_database)
    /\ lk_database' = read_guard(lk_database, t)
    /\ lk_goto(t, IF lk_pc[t].op = "delete_document"
                     THEN "db_delete_document" ELSE "db_get_document_by_id")
    /\ UNCHANGED <<lk_initialized, lk_ops>>
    /\ UNCHANGED nonLockVars

\* delete_document: db.delete_document(&document_id) deletes the row, the
\* trigger its documents_fts row, the foreign keys its chunks and mentions;
\* the guard is dropped and the call returns
LkDbDeleteDocument(t) ==
    /\ lk_pc[t].at = "db_delete_document"
    /\ IF ~db_schema
          THEN UNCHANGED databaseVars
          ELSE LET deleted == {r \in db_documents : r.id = lk_pc[t].arg}
                   deleted_ids == {r.id : r \in deleted}
               IN  /\ db_documents' = db_documents \ deleted
                   /\ db_documents_fts' =
                         SelectSeq(db_documents_fts,
                                   LAMBDA row : row.content_id \notin deleted_ids)
                   /\ db_document_chunks' = cascade(db_document_chunks, deleted_ids)
                   /\ db_entity_mentions' = cascade(db_entity_mentions, deleted_ids)
                   /\ UNCHANGED <<db_schema, db_foreign_keys>>
    /\ lk_database' = drop_guard(lk_database, t)
    /\ lk_return(t)
    /\ UNCHANGED <<lk_initialized, lk_ops>>
    /\ UNCHANGED <<core_initialized, indexerVars>>
    /\ lk_core_unchanged
    /\ UNCHANGED nonCoreLockVars

\* get_document_by_id: db.get_document_by_id reads a row; the guard is
\* dropped and the call returns
LkDbGetDocumentById(t) ==
    /\ lk_pc[t].at = "db_get_document_by_id"
    /\ lk_database' = drop_guard(lk_database, t)
    /\ lk_return(t)
    /\ UNCHANGED <<lk_initialized, lk_ops>>
    /\ UNCHANGED nonLockVars

NextLock ==
    \E t \in Threads :
        \/ \E call \in LockCalls : LkCall(t, call)
        \/ LkInitializedWrite(t)
        \/ LkDatabaseWrite(t)
        \/ LkDbInitialize(t)
        \/ LkRebuildIndexRead(t)
        \/ LkRebuildIndex(t)
        \/ LkDatabaseRead(t)
        \/ LkDbDeleteDocument(t)
        \/ LkDbGetDocumentById(t)

(***************************************************************************)
(* rust-core search: InvertedIndex                                         *)
(* (src/rust-core/search/src/indexer.rs:132-201).  A term_frequency is the *)
(* fraction <<numerator, denominator>>; positions count from 0.            *)
(***************************************************************************)
MaxInvOps == 3

InvDocuments ==
    [id : {"d1", "d2"},
     tokens : {<<>>, <<"a">>, <<"b", "a">>, <<"a", "b", "a">>}]

InvertedIndexNew ==
    /\ inv_index = EmptyMap
    /\ inv_documents = EmptyMap
    /\ inv_last_call = [op |-> "new"]
    /\ inv_ops = 0

\* index of the posting of document_id in a posting list, 0 if there is none
posting_of(entry, document_id) ==
    IF \E i \in 1..Len(entry) : entry[i].document_id = document_id
    THEN CHOOSE i \in 1..Len(entry) :
            /\ entry[i].document_id = document_id
            /\ \A j \in 1..(i - 1) : entry[j].document_id # document_id
    ELSE 0

\* one round of the first loop: the token at position is recorded
add_token(index, document_id, token, position) ==
    LET entry == IF token \in DOMAIN index THEN index[token] ELSE <<>>
        i == posting_of(entry, document_id)
    IN MapPut(index, token,
              IF i # 0
              THEN [entry EXCEPT
                      ![i].positions = Append(@, position),
                      ![i].term_frequency = <<@[1] + @[2], @[2]>>]
              ELSE Append(entry, [document_id |-> document_id,
                                  term_frequency |-> <<1, 1>>,
                                  positions |-> <<position>>]))

RECURSIVE add_tokens(_, _, _, _)
add_tokens(index, document_id, tokens, k) ==
    IF k > Len(tokens) THEN index
    ELSE add_tokens(add_token(index, document_id, tokens[k], k - 1),
                    document_id, tokens, k + 1)

\* the second loop: every posting of the document, under any term, is
\* divided by the number of tokens
normalize(index, document_id, len) ==
    [t \in DOMAIN index |->
        [i \in 1..Len(index[t]) |->
            IF index[t][i].document_id = document_id
            THEN [index[t][i] EXCEPT !.term_frequency = <<@[1], @[2] * len>>]
            ELSE index[t][i]]]

inv_add_document(index, document) ==
    normalize(add_tokens(index, document.id, document.tokens, 1),
              document.id, Len(document.tokens))

InvAddDocument(document) ==
    /\ inv_ops < MaxInvOps
    /\ inv_ops' = inv_ops + 1
    /\ inv_index' = inv_add_document(inv_index, document)
    /\ inv_documents' = MapPut(inv_documents, document.id, document.tokens)
    /\ inv_last_call' = [op |-> "add_document", arg |-> document.id]
    /\ UNCHANGED nonInvertedVars

NextInverted == \E document \in InvDocuments : InvAddDocument(document)
(***************************************************************************)
(* GraphDatabase (src/backend/database/graph_store.rs): relationship       *)
(* records and the source / target / type index lists, all kept in the     *)
(* "relationships" column family.                                          *)
(***************************************************************************)
\* number of store_relationship / delete_relationship calls explored
MaxGraphOps == 3

RelIds == {"r1", "r2"}

EntityIds == {"e1", "e2"}

RelTypes == {"knows", "cites"}

\* EntityRelationship; strength, confidence, created_at and metadata play no
\* part in the indexes
EntityRelationships ==
    [id : RelIds, source_entity_id : EntityIds, target_entity_id : EntityIds,
     relationship_type : RelTypes]

\* format!("source:{}", entity_id)
source_key(entity_id) ==
    CASE entity_id = "e1" -> "source:e1" [] entity_id = "e2" -> "source:e2"
      [] entity_id = "e3" -> "source:e3"

\* format!("target:{}", entity_id)
target_key(entity_id) ==
    CASE entity_id = "e1" -> "target:e1" [] entity_id = "e2" -> "target:e2"
      [] entity_id = "e3" -> "target:e3"

\* format!("type:{}", relationship_type)
type_key(relationship_type) ==
    CASE relationship_type = "knows" -> "type:knows"
      [] relationship_type = "cites" -> "type:cites"

\* the order of String on the model's relationship ids
id_rank(id) == CASE id = "r1" -> 1 [] id = "r2" -> 2

\* Vec::sort followed by Vec::dedup: the distinct ids in ascending order
RECURSIVE sorted_ids(_)
sorted_ids(ids) ==
    IF ids = {}
       THEN <<>>
       ELSE LET least == CHOOSE x \in ids : \A y \in ids : id_rank(x) <= id_rank(y)
            IN  <<least>> \o sorted_ids(ids \ {least})

sort_dedup(list) == sorted_ids(Range(list))

\* db.get_cf of a list value: the stored list, or none under a missing key
stored_list(cf, key) == IF key \in DOMAIN cf THEN cf[key] ELSE <<>>

\* get_entity_relationships: source list, then target list, sorted, deduped
get_entity_relationships(cf, entity_id) ==
    sort_dedup(stored_list(cf, source_key(entity_id))
                  \o stored_list(cf, target_key(entity_id)))

\* get_relationships_by_type
get_relationships_by_type(cf, relationship_type) ==
    stored_list(cf, type_key(relationship_type))

\* store_relationship_indexes: three read-push-write rounds, each reading
\* what the previous round wrote
store_relationship_indexes(cf, relationship) ==
    LET cf1 == MapPut(cf, source_key(relationship.source_entity_id),
                      Append(get_entity_relationships(
                                cf, relationship.source_entity_id),
                             relationship.id))
        cf2 == MapPut(cf1, target_key(relationship.target_entity_id),
                      Append(get_entity_relationships(
                                cf1, relationship.target_entity_id),
                             relationship.id))
    IN  MapPut(cf2, type_key(relationship.relationship_type),
               Append(get_relationships_by_type(
                         cf2, relationship.relationship_type),
                      relationship.id))

\* Vec::retain(|id| id != &relationship.id)
retain_other(list, id) == SelectSeq(list, LAMBDA x : x # id)

\* remove_relationship_indexes
remove_relationship_indexes(cf, relationship) ==
    LET cf1 == MapPut(cf, source_key(relationship.source_entity_id),
                      retain_other(get_entity_relationships(
                                      cf, relationship.source_entity_id),
                                   relationship.id))
        cf2 == MapPut(cf1, target_key(relationship.target_entity_id),
                      retain_other(get_entity_relationships(
                                      cf1, relationship.target_entity_id),
                                   relationship.id))
    IN  MapPut(cf2, type_key(relationship.relationship_type),
               retain_other(get_relationships_by_type(
                               cf2, relationship.relationship_type),
                            relationship.id))

\* GraphDatabase::new on an empty directory
GraphDatabaseNew ==
    /\ gdb_relationships = EmptyMap
    /\ gdb_last_call = Call("new", "", "Ok")
    /\ gdb_ops = 0

\* store_relationship: put the record under its id, then the indexes
store_relationship(relationship) ==
    /\ gdb_ops < MaxGraphOps
    /\ gdb_ops' = gdb_ops + 1
    /\ gdb_relationships' =
          store_relationship_indexes(
             MapPut(gdb_relationships, relationship.id, relationship),
             relationship)
    /\ gdb_last_call' = Call("store_relationship", relationship.id, "Ok")
    /\ UNCHANGED nonGraphVars

\* delete_relationship: clean the indexes of a stored record, delete the key
delete_relationship(relationship_id) ==
    /\ gdb_ops < MaxGraphOps
    /\ gdb_ops' = gdb_ops + 1
    /\ gdb_relationships' =
          IF relationship_id \in DOMAIN gdb_relationships
             THEN MapRemove(remove_relationship_indexes(
                               gdb_relationships,
                               gdb_relationships[relationship_id]),
                            relationship_id)
             ELSE gdb_relationships
    /\ gdb_last_call' = Call("delete_relationship", relationship_id, "Ok")
    /\ UNCHANGED nonGraphVars

NextGraph ==
    \/ \E relationship \in EntityRelationships : store_relationship(relationship)
    \/ \E relationship_id \in RelIds : delete_relationship(relationship_id)

(***************************************************************************)
(* GraphDatabase: get_connected_entities and find_shortest_path, the two   *)
(* breadth-first traversals over the index lists.                          *)
(***************************************************************************)
\* largest max_depth a traversal is called with
MaxDepth == 2

\* the entities and relationships of the traversed graphs
PathEntityIds == {"e1", "e2", "e3"}

PathRelationships ==
    [id : RelIds, source_entity_id : PathEntityIds,
     target_entity_id : PathEntityIds, relationship_type : {"knows"}]

\* get_relationship: the record under the id, if any
get_relationship(cf, relationship_id) ==
    IF relationship_id \in DOMAIN cf THEN Some(cf[relationship_id]) ELSE None

\* the entity a traversal takes a relationship of current to lead to
connected_entity(relationship, current) ==
    IF relationship.source_entity_id = current
       THEN relationship.target_entity_id
       ELSE relationship.source_entity_id

\* the for loop over relationship_ids of both traversals: the entities it
\* marks visited, in the order it finds them
RECURSIVE visit_relationships(_, _, _, _, _)
visit_relationships(cf, current, relationship_ids, visited, found) ==
    IF relationship_ids = <<>>
       THEN [visited |-> visited, found |-> found]
       ELSE LET relationship == get_relationship(cf, Head(relationship_ids))
                neighbor == connected_entity(Unwrap(relationship), current)
            IN  IF relationship # None /\ neighbor \notin visited
                   THEN visit_relationships(cf, current, Tail(relationship_ids),
                                            visited \cup {neighbor},
                                            Append(found, neighbor))
                   ELSE visit_relationships(cf, current, Tail(relationship_ids),
                                            visited, found)

\* the while loop of get_connected_entities over the queue of
\* <<entity, depth>> pairs
RECURSIVE connected_loop(_, _, _, _, _)
connected_loop(cf, queue, visited, result, max_depth) ==
    IF queue = <<>>
       THEN result
       ELSE LET current_entity == Head(queue)[1]
                depth == Head(queue)[2]
                step == visit_relationships(
                           cf, current_entity,
                           get_entity_relationships(cf, current_entity),
                           visited, <<>>)
            IN  IF depth > max_depth
                   THEN connected_loop(cf, Tail(queue), visited, result, max_depth)
                   ELSE connected_loop(
                           cf,
                           Tail(queue) \o [i \in 1..Len(step.found) |->
                                              <<step.found[i], depth + 1>>],
                           step.visited,
                           IF depth > 0 THEN Append(result, current_entity)
                                        ELSE result,
                           max_depth)

get_connected_entities(cf, entity_id, max_depth) ==
    connected_loop(cf, << <<entity_id, 0>> >>, {entity_id}, <<>>, max_depth)

\* the path find_shortest_path rebuilds from the parent map, target first
RECURSIVE path_to(_, _, _)
path_to(parent, source, node) ==
    IF node = source THEN <<source>>
    ELSE Append(path_to(parent, source, parent[node]), node)

\* the while loop of find_shortest_path
RECURSIVE shortest_loop(_, _, _, _, _, _)
shortest_loop(cf, queue, visited, parent, source, target) ==
    IF queue = <<>>
       THEN None
       ELSE LET current == Head(queue)
                step == visit_relationships(
                           cf, current, get_entity_relationships(cf, current),
                           visited, <<>>)
            IN  IF current = target
                   THEN Some(path_to(parent, source, target))
                   ELSE shortest_loop(
                           cf, Tail(queue) \o step.found, step.visited,
                           [n \in (DOMAIN parent) \cup Range(step.found) |->
                               IF n \in DOMAIN parent THEN parent[n] ELSE current],
                           source, target)

find_shortest_path(cf, source, target) ==
    shortest_loop(cf, <<source>>, {source}, EmptyMap, source, target)

GetConnectedEntities(entity_id, max_depth) ==
    /\ gdb_last_call' =
          [op |-> "get_connected_entities", arg |-> entity_id,
           max_depth |-> max_depth, result |-> "Ok",
           value |-> get_connected_entities(gdb_relationships, entity_id,
                                            max_depth)]
    /\ UNCHANGED <<gdb_relationships, gdb_ops>>
    /\ UNCHANGED nonGraphVars

FindShortestPath(source, target) ==
    /\ gdb_last_call' =
          [op |-> "find_shortest_path", arg |-> source, target |-> target,
           result |-> "Ok",
           value |-> find_shortest_path(gdb_relationships, source, target)]
    /\ UNCHANGED <<gdb_relationships, gdb_ops>>
    /\ UNCHANGED nonGraphVars

NextGraphQuery ==
    \/ \E relationship \in PathRelationships : store_relationship(relationship)
    \/ \E relationship_id \in RelIds : delete_relationship(relationship_id)
    \/ \E entity_id \in PathEntityIds, max_depth \in 0..MaxDepth :
          GetConnectedEntities(entity_id, max_depth)
    \/ \E source \in PathEntityIds, target \in PathEntityIds :
          FindShortestPath(source, target)

(***************************************************************************)
(* rust-core ingestion: entity extractors                                  *)
(* (src/rust-core/ingestion/src/extractors.rs).  A text is a sequence of   *)
(* characters, a match is the half-open span <<start, end>> of byte        *)
(* offsets a regex reports, confidences are in hundredths.                 *)
(***************************************************************************)
MaxTextLen == 3

MaxMatches == 2

MaxRuleEntities == 1

ExtractTexts ==
    { [i \in 1..MaxTextLen |-> "a"],
      [i \in 1..MaxTextLen |-> IF i % 2 = 1 THEN "a" ELSE "b"] }

\* the spans a pattern can match: none of the registered patterns matches the
\* empty string
Spans == { sp \in (0..MaxTextLen) \X (0..MaxTextLen) : sp[1] < sp[2] }

\* Regex::find_iter: successive matches, none starting before the previous ends
FindIterResults ==
    { ms \in UNION { [1..n -> Spans] : n \in 0..MaxMatches } :
        \A i \in 1..(Len(ms) - 1) :
            /\ ms[i][2] <= ms[i + 1][1]
            /\ ms[i] # ms[i + 1] }

\* two of the patterns RegexEntityExtractor::new registers, in its order
RegexPatterns ==
    << [entity_type |-> "email", confidence |-> 95],
       [entity_type |-> "person", confidence |-> 60] >>

\* mat.as_str()
as_str(text, span) == SubSeq(text, span[1] + 1, span[2])

ExtractedEntity(entity_type, text, confidence, span) ==
    [entity_type |-> entity_type, name |-> as_str(text, span),
     confidence |-> confidence, start_position |-> span[1],
     end_position |-> span[2]]

\* the entities of one pattern, in find_iter order
pattern_entities(pattern, text, matches) ==
    [i \in 1..Len(matches) |->
        ExtractedEntity(pattern.entity_type, text, pattern.confidence, matches[i])]

RECURSIVE regex_candidates(_, _, _)
regex_candidates(text, pattern_matches, k) ==
    IF k > Len(RegexPatterns) THEN <<>>
    ELSE pattern_entities(RegexPatterns[k], text, pattern_matches[k])
            \o regex_candidates(text, pattern_matches, k + 1)

\* the comparator of both sort_by calls: start ascending, then confidence
\* descending
entity_less(a, b) ==
    \/ a.start_position < b.start_position
    \/ /\ a.start_position = b.start_position
       /\ a.confidence > b.confidence

\* slice::sort_by is stable: an entity goes after the ones it is not less than
RECURSIVE sort_insert(_, _)
sort_insert(sorted, entity) ==
    IF sorted = <<>> THEN <<entity>>
    ELSE IF entity_less(entity, sorted[Len(sorted)])
         THEN Append(sort_insert(SubSeq(sorted, 1, Len(sorted) - 1), entity),
                     sorted[Len(sorted)])
         ELSE Append(sorted, entity)

RECURSIVE sort_entities(_)
sort_entities(entities) ==
    IF entities = <<>> THEN <<>>
    ELSE sort_insert(sort_entities(SubSeq(entities, 1, Len(entities) - 1)),
                     entities[Len(entities)])

overlapsSameStartOnly(entity, existing) ==
    entity.start_position = existing.start_position
overlaps(entity, existing) ==
    /\ entity.start_position < existing.end_position
    /\ entity.end_position > existing.start_position

is_duplicate(entity, existing) ==
    /\ existing.name = entity.name
    /\ existing.entity_type = entity.entity_type
    /\ existing.start_position - entity.start_position < 10
    /\ entity.start_position - existing.start_position < 10

RECURSIVE filter_overlaps(_, _)
filter_overlaps(entities, filtered_entities) ==
    IF entities = <<>> THEN filtered_entities
    ELSE filter_overlaps(
            Tail(entities),
            IF \E i \in 1..Len(filtered_entities) :
                    overlaps(Head(entities), filtered_entities[i])
            THEN filtered_entities
            ELSE Append(filtered_entities, Head(entities)))

RECURSIVE filter_duplicates(_, _)
filter_duplicates(entities, filtered_entities) ==
    IF entities = <<>> THEN filtered_entities
    ELSE filter_duplicates(
            Tail(entities),
            IF \E i \in 1..Len(filtered_entities) :
                    is_duplicate(Head(entities), filtered_entities[i])
            THEN filtered_entities
            ELSE Append(filtered_entities, Head(entities)))

\* RegexEntityExtractor::extract_entities
regex_extract_entities(text, pattern_matches) ==
    filter_overlaps(sort_entities(regex_candidates(text, pattern_matches, 1)),
                    <<>>)

\* RuleBasedEntityExtractor::extract_entities: names at 0.80, then
\* organizations at 0.85, unfiltered
RuleCandidates(text) ==
    { ExtractedEntity(p.entity_type, text, p.confidence, sp) :
        p \in { [entity_type |-> "person", confidence |-> 80],
                [entity_type |-> "organization", confidence |-> 85] },
        sp \in { s \in Spans : s[1] < s[2] } }

RuleBasedResults(text) ==
    UNION { [1..n -> RuleCandidates(text)] : n \in 0..MaxRuleEntities }

\* CompositeEntityExtractor::extract_entities over [Regex, RuleBased]
composite_extract_entities(text, pattern_matches, rule_entities) ==
    filter_duplicates(
        sort_entities(regex_extract_entities(text, pattern_matches)
                        \o rule_entities),
        <<>>)

ExtractorsNew(text, pattern_matches, rule_entities) ==
    /\ ee_text = text
    /\ ee_pattern_matches = pattern_matches
    /\ ee_rule_entities = rule_entities
    /\ ee_entities = <<>>
    /\ ee_last_call = "new"

InitExtract ==
    \E text \in ExtractTexts :
    \E pattern_matches \in [1..Len(RegexPatterns) -> FindIterResults] :
    \E rule_entities \in RuleBasedResults(text) :
        ExtractorsNew(text, pattern_matches, rule_entities)

\* IngestionEngine::new holds a RegexEntityExtractor alone
InitExtractRegex ==
    \E text \in ExtractTexts :
    \E pattern_matches \in [1..Len(RegexPatterns) -> FindIterResults] :
        ExtractorsNew(text, pattern_matches, <<>>)

RegexExtractEntities ==
    /\ ee_last_call = "new"
    /\ ee_entities' = regex_extract_entities(ee_text, ee_pattern_matches)
    /\ ee_last_call' = "RegexEntityExtractor"
    /\ UNCHANGED <<ee_text, ee_pattern_matches, ee_rule_entities>>
    /\ UNCHANGED <<chunkVars, engineVars, nonIngestVars>>

CompositeExtractEntities ==
    /\ ee_last_call = "new"
    /\ ee_entities' = composite_extract_entities(ee_text, ee_pattern_matches,
                                                 ee_rule_entities)
    /\ ee_last_call' = "CompositeEntityExtractor"
    /\ UNCHANGED <<ee_text, ee_pattern_matches, ee_rule_entities>>
    /\ UNCHANGED <<chunkVars, engineVars, nonIngestVars>>

NextExtract == RegexExtractEntities \/ CompositeExtractEntities

NextExtractRegex == RegexExtractEntities

(***************************************************************************)
(* rust-core ingestion: IngestionEngine::create_chunks                     *)
(* (src/rust-core/ingestion/src/lib.rs:258-301).  The content is the       *)
(* sequence of its characters; a chunk is the slice                        *)
(* words[start_idx..end_idx] of its whitespace-separated words.            *)
(***************************************************************************)
MaxChunkWords == 6

MaxChunkSize == 3

Letters == <<"a", "b", "c", "d", "e", "f", "g", "h">>

\* char::is_whitespace on the characters of the model's texts
Whitespace == {" ", "\t", "\n"}

\* the words of n one-letter words, a word being the sequence of its characters
ChunkContents == { [k \in 1..n |-> <<Letters[k]>>] : n \in 0..MaxChunkWords }

\* slice::join(" "): the characters of the words with one space in between
RECURSIVE join(_)
join(words) ==
    IF words = <<>> THEN <<>>
    ELSE IF Len(words) = 1 THEN words[1]
    ELSE words[1] \o <<" ">> \o join(Tail(words))

\* str::split_whitespace: the maximal runs of characters that are not
\* whitespace, in order; word is the run being read
RECURSIVE split_from(_, _)
split_from(content, word) ==
    IF content = <<>>
       THEN IF word = <<>> THEN <<>> ELSE <<word>>
    ELSE IF Head(content) \in Whitespace
       THEN (IF word = <<>> THEN <<>> ELSE <<word>>)
               \o split_from(Tail(content), <<>>)
    ELSE split_from(Tail(content), Append(word, Head(content)))

split_whitespace(content) == split_from(content, <<>>)

\* the contents that are chunked: the words separated by single spaces, and
\* texts with leading or trailing whitespace, a tab, a newline, a run of two
\* spaces and a word of two characters
ChunkTexts ==
    { join(words) : words \in ChunkContents }
       \cup { <<" ", "a", " ", "b">>, <<"a", "\t", "b">>,
              <<"a", " ", " ", "b", " ", "c">>, <<"a", "\n", "b", " ", "c">>,
              <<"a", "b", " ", "c", " ", "d">>, <<"a", " ", "b", " ">> }

ChunkConfigs == [chunk_size : 0..MaxChunkSize, chunk_overlap : 0..MaxChunkSize]

Min(a, b) == IF a < b THEN a ELSE b

Max(a, b) == IF a > b THEN a ELSE b

\* the start of the next chunk; end_idx - chunk_overlap is a usize
\* subtraction, which panics below zero when overflow is checked and wraps
\* to a value above every length when it is not; -1 stands for the panic
next_start_idxPastEnd(start_idx, end_idx, len, config, overflow_checks) ==
    IF end_idx = len THEN len ELSE end_idx + 1
next_start_idx(start_idx, end_idx, len, config, overflow_checks) ==
    IF end_idx = len THEN len
    ELSE IF end_idx >= config.chunk_overlap
         THEN Max(start_idx + 1, end_idx - config.chunk_overlap)
         ELSE IF overflow_checks THEN -1 ELSE len

\* content is kept as chunk_words, the words of the chunk: the String of the
\* chunk is join(content); a position is a length in bytes
DocumentChunk(words, start_idx, end_idx, chunk_index) ==
    LET chunk_content == join(SubSeq(words, start_idx + 1, end_idx))
        start_position == IF start_idx = 0 THEN 0
                          ELSE Len(join(SubSeq(words, 1, start_idx))) + 1
    IN  [content |-> SubSeq(words, start_idx + 1, end_idx),
         chunk_index |-> chunk_index,
         start_idx |-> start_idx, end_idx |-> end_idx,
         start_position |-> start_position,
         end_position |-> start_position + Len(chunk_content)]

RECURSIVE chunk_loop(_, _, _, _, _)
chunk_loop(words, config, overflow_checks, start_idx, chunks) ==
    IF start_idx = -1 THEN [returned |-> FALSE, chunks |-> <<>>]
    ELSE IF ~(start_idx < Len(words)) THEN [returned |-> TRUE, chunks |-> chunks]
    ELSE LET end_idx == Min(start_idx + config.chunk_size, Len(words))
         IN chunk_loop(words, config, overflow_checks,
                       next_start_idx(start_idx, end_idx, Len(words), config,
                                      overflow_checks),
                       Append(chunks,
                              DocumentChunk(words, start_idx, end_idx, Len(chunks))))

create_chunks(words, config, overflow_checks) ==
    IF words = <<>> THEN [returned |-> TRUE, chunks |-> <<>>]
    ELSE chunk_loop(words, config, overflow_checks, 0, <<>>)

ChunkerNew(content, config, overflow_checks) ==
    /\ ck_content = content
    /\ ck_words = split_whitespace(content)
    /\ ck_config = config
    /\ ck_overflow_checks = overflow_checks
    /\ ck_result = None

InitChunks ==
    \E content \in ChunkTexts, config \in ChunkConfigs,
       overflow_checks \in BOOLEAN :
        ChunkerNew(content, config, overflow_checks)

CreateChunks ==
    /\ ck_result = None
    /\ ck_result' = Some(create_chunks(split_whitespace(ck_content), ck_config,
                                       ck_overflow_checks))
    /\ UNCHANGED <<ck_content, ck_words, ck_config, ck_overflow_checks>>
    /\ UNCHANGED <<extractVars, engineVars, nonIngestVars>>

NextChunks == CreateChunks

(***************************************************************************)
(* rust-core ingestion: IngestionEngine::ingest_file and ingest_directory  *)
(* (src/rust-core/ingestion/src/lib.rs:132-256).  The directory "/d" holds *)
(* the entries WalkDir yields, in the order it yields them; entry k is the *)
(* file "/d/k" or an entry WalkDir could not read.                         *)
(***************************************************************************)
MaxFileSize == 3

MaxDirEntries == 2

MaxIngestOps == 2

\* one byte per word and one per separator
words_of(file) ==
    IF file.utf8 THEN [k \in 1..((file.size + 1) \div 2) |-> <<Letters[k]>>]
    ELSE <<>>

IngestFiles ==
    [kind : {"file"}, ext : {"txt", "xml", "tmp"},
     size : (MaxFileSize - 1)..(MaxFileSize + 1), utf8 : BOOLEAN]

WalkEntries == IngestFiles \cup {[kind |-> "error"]}

IngestConfigs ==
    { [max_file_size |-> MaxFileSize, chunk_size |-> 1, chunk_overlap |-> 0],
      [max_file_size |-> MaxFileSize, chunk_size |-> 1, chunk_overlap |-> 2] }

\* file paths a caller passes; "/d/0" names nothing
IngestPaths == 0..MaxDirEntries

ie_exists(path) ==
    /\ path \in 1..Len(ing_entries)
    /\ ing_entries[path].kind = "file"

\* validate_file on an existing path
ie_validate_fileExclusive(config, file) ==
    IF file.size >= config.max_file_size THEN "File too large"
    ELSE IF file.ext \notin supported_extensions THEN "Unsupported file type"
    ELSE "Ok"
ie_validate_file(config, file) ==
    IF file.size > config.max_file_size THEN "File too large"
    ELSE IF file.ext \notin supported_extensions THEN "Unsupported file type"
    ELSE "Ok"

\* the extensions for which find_processor finds a processor
processor_extensions ==
    {"txt", "md", "markdown", "rst", "pdf", "docx", "html", "htm", "csv",
     "tsv", "json"}

\* the steps of ingest_file on an existing file, up to the callback
ie_ingest_file(config, overflow_checks, path, file) ==
    IF ie_validate_file(config, file) # "Ok"
    THEN [result |-> "Err", error |-> ie_validate_file(config, file)]
    ELSE IF file.ext \notin processor_extensions
    THEN [result |-> "Err", error |-> "No processor found"]
    ELSE IF ~file.utf8
    THEN [result |-> "Err", error |-> "stream did not contain valid UTF-8"]
    ELSE LET chunked == create_chunks(words_of(file), config, overflow_checks)
         IN IF ~chunked.returned THEN [result |-> "panic"]
            ELSE [result |-> "Ok",
                  document |-> [file_path |-> path, content |-> words_of(file),
                                chunks |-> chunked.chunks]]

ingest_file(config, overflow_checks, path) ==
    IF ~ie_exists(path)
    THEN [result |-> "Err", error |-> "File does not exist"]
    ELSE ie_ingest_file(config, overflow_checks, path, ing_entries[path])

\* what ingest_file tells its callback
ingest_file_notified(outcome) ==
    IF outcome.result = "Ok"
    THEN << [op |-> "on_document_processed", document |-> outcome.document] >>
    ELSE <<>>

\* the files the WalkDir loop collects, or "Err" at the first unreadable entry
RECURSIVE collect_files(_, _, _)
collect_files(config, k, files) ==
    IF k > Len(ing_entries) THEN [result |-> "Ok", files |-> files]
    ELSE IF ing_entries[k].kind = "error" THEN [result |-> "Err"]
    ELSE collect_files(config, k + 1,
                       IF ing_entries[k].ext \in supported_extensions
                       THEN Append(files, k) ELSE files)

\* the loop over the collected files: state is the documents pushed and the
\* notifications made; a panic in ingest_file ends the call where it stands
RECURSIVE process_files(_, _, _, _, _, _)
process_files(config, overflow_checks, files, index, processed_documents, notified) ==
    IF index >= Len(files)
    THEN [result |-> "Ok", documents |-> processed_documents,
          notified |-> notified]
    ELSE LET outcome == ingest_file(config, overflow_checks, files[index + 1])
             progress == [op |-> "on_progress", processed |-> index + 1,
                          total |-> Len(files)]
         IN CASE outcome.result = "panic" ->
                    [result |-> "panic", documents |-> <<>>, notified |-> notified]
              [] outcome.result = "Ok" ->
                    process_files(config, overflow_checks, files, index + 1,
                        Append(processed_documents, outcome.document),
                        notified \o ingest_file_notified(outcome) \o <<progress>>)
              [] outcome.result = "Err" ->
                    process_files(config, overflow_checks, files, index + 1,
                        processed_documents,
                        notified \o << [op |-> "on_error",
                                        file_path |-> files[index + 1],
                                        error |-> outcome.error], progress >>)

ingest_directory(config, overflow_checks, is_dir) ==
    IF ~is_dir THEN [result |-> "Err", documents |-> <<>>, notified |-> <<>>]
    ELSE IF collect_files(config, 1, <<>>).result = "Err"
    THEN [result |-> "Err", documents |-> <<>>, notified |-> <<>>]
    ELSE process_files(config, overflow_checks,
                       collect_files(config, 1, <<>>).files, 0, <<>>, <<>>)

IngestionEngineNew(entries, config, overflow_checks) ==
    /\ ing_entries = entries
    /\ ing_config = config
    /\ ing_overflow_checks = overflow_checks
    /\ ing_notified = <<>>
    /\ ing_last_call = [op |-> "new"]
    /\ ing_ops = 0

InitIngest ==
    \E entries \in UNION { [1..n -> WalkEntries] : n \in 0..MaxDirEntries },
       config \in IngestConfigs, overflow_checks \in BOOLEAN :
        IngestionEngineNew(entries, config, overflow_checks)

IeIngestFile(file_path) ==
    /\ ing_ops < MaxIngestOps
    /\ ing_ops' = ing_ops + 1
    /\ LET outcome == ingest_file(ing_config, ing_overflow_checks, file_path)
       IN /\ ing_notified' = ingest_file_notified(outcome)
          /\ ing_last_call' = [op |-> "ingest_file", arg |-> file_path,
                               outcome |-> outcome]
    /\ UNCHANGED <<ing_entries, ing_config, ing_overflow_checks>>
    /\ UNCHANGED <<extractVars, chunkVars, nonIngestVars>>

IeIngestDirectory(is_dir) ==
    /\ ing_ops < MaxIngestOps
    /\ ing_ops' = ing_ops + 1
    /\ LET outcome == ingest_directory(ing_config, ing_overflow_checks, is_dir)
       IN /\ ing_notified' = outcome.notified
          /\ ing_last_call' = [op |-> "ingest_directory", arg |-> is_dir,
                               outcome |-> outcome]
    /\ UNCHANGED <<ing_entries, ing_config, ing_overflow_checks>>
    /\ UNCHANGED <<extractVars, chunkVars, nonIngestVars>>

NextIngest ==
    \/ \E file_path \in IngestPaths : IeIngestFile(file_path)
    \/ \E is_dir \in BOOLEAN : IeIngestDirectory(is_dir)

(***************************************************************************)
(* libs/encryption: EncryptionEngine (src/libs/encryption/src/lib.rs).     *)
(* The AEAD is ideal: a byte of the combined ciphertext names the key,     *)
(* nonce, plaintext and position it was computed from, and a combined      *)
(* ciphertext verifies under a key and nonce only if encryption under      *)
(* them produced exactly it.  Sizes are scaled down.                       *)
(***************************************************************************)
\* TAG_SIZE and NONCE_SIZE, in bytes of the model
TagBytes == 2

NonceBytes == 2

MaxPlainLen == 2

MaxEncOps == 4

MasterKeys == {"k1", "k2"}

EncNonces == {"n1"}

PlainTexts == UNION { [1..n -> {"p", "q"}] : n \in 0..MaxPlainLen }

\* a byte no encryption produced
ForgedByte == [forged |-> TRUE]

\* generate_nonce: the bytes of one random nonce
nonce_bytes(n) == [i \in 1..NonceBytes |-> [nonce |-> n, pos |-> i]]

\* crypto_aead_xchacha20poly1305_ietf_encrypt: ciphertext followed by tag
aead_encrypt(key, nonce, plaintext) ==
    [i \in 1..(Len(plaintext) + TagBytes) |->
        [key |-> key, nonce |-> nonce, plaintext |-> plaintext, pos |-> i]]

\* crypto_aead_xchacha20poly1305_ietf_decrypt: the plaintext, or None when
\* the combined ciphertext does not verify
aead_decrypt(key, nonce, combined) ==
    IF \E p \in PlainTexts : combined = aead_encrypt(key, nonce, p)
    THEN Some(CHOOSE p \in PlainTexts : combined = aead_encrypt(key, nonce, p))
    ELSE None

\* encrypt_data with the nonce generate_nonce drew
encrypt_data(master_key, plaintext, n) ==
    LET combined == aead_encrypt(master_key, nonce_bytes(n), plaintext)
        tag_start == Len(combined) - TagBytes
    IN [ciphertext |-> SubSeq(combined, 1, tag_start),
        nonce |-> nonce_bytes(n),
        salt |-> <<>>,
        tag |-> SubSeq(combined, tag_start + 1, Len(combined))]

\* the NonceBytes bytes libsodium reads at encrypted.nonce.as_ptr(): a
\* shorter Vec is followed by whatever the heap holds
nonce_read(nonce, heap) == SubSeq(nonce \o heap, 1, NonceBytes)

\* decrypt_data; libsodium writes the whole plaintext into a buffer of
\* encrypted.ciphertext.len() bytes, and writing past it is undefined: the
\* process dies there or goes on with the buffer it has
decrypt_data(master_key, encrypted, heap, survives) ==
    LET combined_ciphertext == encrypted.ciphertext \o encrypted.tag
        opened == aead_decrypt(master_key, nonce_read(encrypted.nonce, heap),
                               combined_ciphertext)
        buffer_len == Len(encrypted.ciphertext)
    IN IF opened = None
       THEN [result |-> "Ok", plaintext |-> <<>>, verified |-> FALSE]
       ELSE IF Len(Unwrap(opened)) > buffer_len /\ ~survives
       THEN [result |-> "crash"]
       ELSE [result |-> "Ok",
             plaintext |-> SubSeq(Unwrap(opened), 1,
                                  Min(Len(Unwrap(opened)), buffer_len)),
             verified |-> TRUE]

EncryptionEngineNew ==
    /\ enc_master_key = None
    /\ enc_message = None
    /\ enc_origin = None
    /\ enc_last_call = [op |-> "new", result |-> "Ok"]
    /\ enc_ops = 0

EncCall ==
    /\ enc_ops < MaxEncOps
    /\ enc_ops' = enc_ops + 1

\* generate_key / set_master_key
SetMasterKey(key) ==
    /\ EncCall
    /\ enc_master_key' = Some(key)
    /\ enc_last_call' = [op |-> "set_master_key", result |-> "Ok"]
    /\ UNCHANGED <<enc_message, enc_origin>>
    /\ UNCHANGED nonEncryptVars

EncryptData(plaintext) ==
    /\ EncCall
    /\ IF enc_master_key = None
          THEN /\ enc_last_call' = [op |-> "encrypt_data", result |-> "Err"]
               /\ UNCHANGED <<enc_message, enc_origin>>
          ELSE \E n \in EncNonces :
                 LET encrypted == encrypt_data(Unwrap(enc_master_key), plaintext, n)
                 IN /\ enc_message' = Some(encrypted)
                    /\ enc_origin' = Some([key |-> Unwrap(enc_master_key),
                                           plaintext |-> plaintext,
                                           encrypted |-> encrypted])
                    /\ enc_last_call' = [op |-> "encrypt_data", result |-> "Ok"]
    /\ UNCHANGED enc_master_key
    /\ UNCHANGED nonEncryptVars

\* the fields of EncryptionResult are public: the holder of a result changes
\* one byte of a field
ModifyByte(field, i) ==
    /\ EncCall
    /\ enc_message # None
    /\ i \in 1..Len(Unwrap(enc_message)[field])
    /\ enc_message' = Some([Unwrap(enc_message) EXCEPT ![field][i] = ForgedByte])
    /\ enc_last_call' = [op |-> "modify", result |-> "Ok"]
    /\ UNCHANGED <<enc_master_key, enc_origin>>
    /\ UNCHANGED nonEncryptVars

\* ... or moves the boundary between ciphertext and tag to tag_start
MoveTagStart(tag_start) ==
    /\ EncCall
    /\ enc_message # None
    /\ LET combined == Unwrap(enc_message).ciphertext \o Unwrap(enc_message).tag
       IN /\ tag_start \in 0..Len(combined)
          /\ tag_start # Len(Unwrap(enc_message).ciphertext)
          /\ enc_message' = Some([Unwrap(enc_message) EXCEPT
                                    !.ciphertext = SubSeq(combined, 1, tag_start),
                                    !.tag = SubSeq(combined, tag_start + 1,
                                                   Len(combined))])
    /\ enc_last_call' = [op |-> "modify", result |-> "Ok"]
    /\ UNCHANGED <<enc_master_key, enc_origin>>
    /\ UNCHANGED nonEncryptVars

\* ... or drops the last byte of the nonce
TruncateNonce ==
    /\ EncCall
    /\ enc_message # None
    /\ Unwrap(enc_message).nonce # <<>>
    /\ enc_message' = Some([Unwrap(enc_message) EXCEPT
                              !.nonce = SubSeq(@, 1, Len(@) - 1)])
    /\ enc_last_call' = [op |-> "modify", result |-> "Ok"]
    /\ UNCHANGED <<enc_master_key, enc_origin>>
    /\ UNCHANGED nonEncryptVars

\* what the heap can hold behind a nonce Vec: bytes of earlier nonces or
\* anything else
HeapBytes ==
    { [nonce |-> n, pos |-> i] : n \in EncNonces, i \in 1..NonceBytes }
        \cup {ForgedByte}

DecryptData ==
    /\ EncCall
    /\ enc_message # None
    /\ IF enc_master_key = None
          THEN enc_last_call' = [op |-> "decrypt_data", result |-> "Err"]
          ELSE \E heap \in [1..NonceBytes -> HeapBytes], survives \in BOOLEAN :
                  enc_last_call' =
                      [op |-> "decrypt_data"] @@
                      decrypt_data(Unwrap(enc_master_key), Unwrap(enc_message),
                                   heap, survives)
    /\ UNCHANGED <<enc_master_key, enc_message, enc_origin>>
    /\ UNCHANGED nonEncryptVars

NextEncrypt ==
    \/ \E key \in MasterKeys : SetMasterKey(key)
    \/ \E plaintext \in PlainTexts : EncryptData(plaintext)
    \/ \E field \in {"ciphertext", "tag", "nonce"}, i \in 1..(MaxPlainLen + TagBytes) :
            ModifyByte(field, i)
    \/ \E tag_start \in 0..(MaxPlainLen + TagBytes) : MoveTagStart(tag_start)
    \/ TruncateNonce
    \/ DecryptData

(***************************************************************************)
(* libs/encryption: the FFI exports (src/libs/encryption/src/lib.rs:       *)
(* 316-451).  A handle is the raw pointer create_encryption_engine returns;*)
(* ENGINE_INSTANCE is the module-level slot every export reads.            *)
(***************************************************************************)
\* number of FFI calls explored
MaxFfiOps == 5

\* addresses an engine can be allocated at
Handles == {"h1", "h2"}

Passwords == {"p1", "p2"}

FfiNew ==
    /\ ffi_engines = EmptyMap
    /\ ffi_instance = None
    /\ ffi_last_call = [op |-> "new"]
    /\ ffi_ops = 0

ffi_count == ffi_ops < MaxFfiOps /\ ffi_ops' = ffi_ops + 1

\* create_encryption_engine: a new engine without a master key, stored in
\* ENGINE_INSTANCE and returned as a raw pointer
create_encryption_engine(handle) ==
    /\ ffi_count
    /\ handle \notin DOMAIN ffi_engines
    /\ ffi_engines' = MapPut(ffi_engines, handle, [master_key |-> None])
    /\ ffi_instance' = Some(handle)
    /\ ffi_last_call' = [op |-> "create_encryption_engine", handle |-> handle,
                         result |-> TRUE]
    /\ UNCHANGED nonFfiVars

\* initialize_with_password(engine_ptr, password, ..): the key derived from
\* the password goes to the engine of ENGINE_INSTANCE
ffi_initialize_with_password(engine_ptr, password) ==
    /\ ffi_count
    /\ engine_ptr \in DOMAIN ffi_engines
    /\ IF ffi_instance = None
          THEN /\ ffi_engines' = ffi_engines
               /\ ffi_last_call' = [op |-> "initialize_with_password",
                                    handle |-> engine_ptr, engine |-> None,
                                    result |-> FALSE]
          ELSE /\ ffi_engines' = [ffi_engines EXCEPT
                                    ![Unwrap(ffi_instance)].master_key =
                                       Some(password)]
               /\ ffi_last_call' = [op |-> "initialize_with_password",
                                    handle |-> engine_ptr,
                                    engine |-> ffi_instance, result |-> TRUE]
    /\ UNCHANGED ffi_instance
    /\ UNCHANGED nonFfiVars

\* encrypt_data(engine_ptr, plaintext, ..): the engine of ENGINE_INSTANCE
\* encrypts, if it has a master key
ffi_encrypt_data(engine_ptr) ==
    /\ ffi_count
    /\ engine_ptr \in DOMAIN ffi_engines
    /\ ffi_last_call' =
          IF ffi_instance = None
             THEN [op |-> "encrypt_data", handle |-> engine_ptr,
                   engine |-> None, key |-> None, result |-> FALSE]
             ELSE [op |-> "encrypt_data", handle |-> engine_ptr,
                   engine |-> ffi_instance,
                   key |-> ffi_engines[Unwrap(ffi_instance)].master_key,
                   result |-> ffi_engines[Unwrap(ffi_instance)].master_key # None]
    /\ UNCHANGED <<ffi_engines, ffi_instance>>
    /\ UNCHANGED nonFfiVars

\* destroy_encryption_engine(engine_ptr): the pointer's reference is dropped
\* and ENGINE_INSTANCE is cleared
destroy_encryption_engine(engine_ptr) ==
    /\ ffi_count
    /\ engine_ptr \in DOMAIN ffi_engines
    /\ ffi_engines' = MapRemove(ffi_engines, engine_ptr)
    /\ ffi_instance' = None
    /\ ffi_last_call' = [op |-> "destroy_encryption_engine",
                         handle |-> engine_ptr, result |-> TRUE]
    /\ UNCHANGED nonFfiVars

NextFfi ==
    \/ \E handle \in Handles : create_encryption_engine(handle)
    \/ \E engine_ptr \in Handles, password \in Passwords :
          ffi_initialize_with_password(engine_ptr, password)
    \/ \E engine_ptr \in Handles : ffi_encrypt_data(engine_ptr)
    \/ \E engine_ptr \in Handles : destroy_encryption_engine(engine_ptr)
(***************************************************************************)
(* Specifications: each starts from the constructed objects of its         *)
(* subsystem, the other subsystems constructed and left alone.             *)
(***************************************************************************)
IdleSearch == SearchEngineNew

IdleWatcher == FileWatcherNew(<<>>)

IdleLibsWatcher == LibsFileWatcherNew

IdleCore == CoreNew([schema |-> FALSE, documents |-> {}, documents_fts |-> <<>>,
                     document_chunks |-> {}, entity_mentions |-> {}], FALSE)

IdleGraph == GraphDatabaseNew

IdleExtract == ExtractorsNew(<<>>, <<>>, <<>>)

IdleChunks == ChunkerNew(<<>>, [chunk_size |-> 1, chunk_overlap |-> 0], TRUE)

IdleEngine ==
    IngestionEngineNew(<<>>, [max_file_size |-> MaxFileSize, chunk_size |-> 1,
                              chunk_overlap |-> 0], TRUE)

IdleEncrypt == EncryptionEngineNew

IdleIngestEncrypt == IdleExtract /\ IdleChunks /\ IdleEngine /\ IdleEncrypt

IdleInverted == InvertedIndexNew

IdleLock == CoreLocksNew

IdleFfi == FfiNew

\* every object constructed, none used yet
InitIdleSpec ==
    IdleSearch /\ IdleWatcher /\ IdleLibsWatcher /\ IdleCore /\ IdleGraph
    /\ IdleIngestEncrypt
    /\ IdleInverted
    /\ IdleLock
    /\ IdleFfi

InitSearchSpec ==
    InitSearch /\ IdleWatcher /\ IdleLibsWatcher /\ IdleCore /\ IdleGraph /\ IdleIngestEncrypt
    /\ IdleInverted
    /\ IdleLock
    /\ IdleFfi

SpecSearch == InitSearchSpec /\ [][NextSearch]_vars

InitWatcherSpec ==
    IdleSearch /\ InitWatcher /\ IdleLibsWatcher /\ IdleCore /\ IdleGraph /\ IdleIngestEncrypt
    /\ IdleInverted
    /\ IdleLock
    /\ IdleFfi

SpecWatcher == InitWatcherSpec /\ [][NextWatcher]_vars

SpecWatcherTimed == InitWatcherSpec /\ [][NextWatcherTimed]_vars

SpecWatcherPaths == InitWatcherSpec /\ [][NextWatcherPaths]_vars

\* the tokio runtime keeps polling the spawned task and a stop() call whose
\* await has resolved; the OS source and the client owe nothing
FairSpecWatcher ==
    SpecWatcher /\ WF_vars(Consume) /\ WF_vars(FwStopFinish)


InitLibsWatcherSpec ==
    IdleSearch /\ IdleWatcher /\ LibsFileWatcherNew /\ IdleCore /\ IdleGraph /\ IdleIngestEncrypt
    /\ IdleInverted
    /\ IdleLock
    /\ IdleFfi

SpecLibsWatcher == InitLibsWatcherSpec /\ [][NextLibsWatcher]_vars

\* the OS schedules both threads of every start_watching call again and again
FairSpecLibsWatcher ==
    /\ SpecLibsWatcher
    /\ \A g \in 1..MaxStarts :
          WF_vars(LwFsThreadStep(g)) /\ WF_vars(LwCallbackStep(g))

InitCoreSpec ==
    IdleSearch /\ IdleWatcher /\ IdleLibsWatcher /\ InitCore /\ IdleGraph /\ IdleIngestEncrypt
    /\ IdleInverted
    /\ IdleLock
    /\ IdleFfi

SpecCore == InitCoreSpec /\ [][NextCore]_vars

\* the tokio runtime keeps polling the watcher's task; clients and other
\* programs owe nothing
FairSpecCore == SpecCore /\ WF_vars(Consume)

InitGraphSpec ==
    IdleSearch /\ IdleWatcher /\ IdleLibsWatcher /\ IdleCore /\ GraphDatabaseNew
    /\ IdleIngestEncrypt
    /\ IdleInverted
    /\ IdleLock
    /\ IdleFfi

SpecGraph == InitGraphSpec /\ [][NextGraph]_vars

SpecSearchQuery == InitSearchSpec /\ [][NextSearchQuery]_vars

InitExtractSpec ==
    IdleSearch /\ IdleWatcher /\ IdleLibsWatcher /\ IdleCore /\ IdleGraph
    /\ InitExtract /\ IdleChunks /\ IdleEngine /\ IdleEncrypt
    /\ IdleInverted
    /\ IdleLock
    /\ IdleFfi

SpecExtract == InitExtractSpec /\ [][NextExtract]_vars

InitExtractRegexSpec ==
    IdleSearch /\ IdleWatcher /\ IdleLibsWatcher /\ IdleCore /\ IdleGraph
    /\ InitExtractRegex /\ IdleChunks /\ IdleEngine /\ IdleEncrypt
    /\ IdleInverted
    /\ IdleLock
    /\ IdleFfi

SpecExtractRegex == InitExtractRegexSpec /\ [][NextExtractRegex]_vars

InitChunksSpec ==
    IdleSearch /\ IdleWatcher /\ IdleLibsWatcher /\ IdleCore /\ IdleGraph
    /\ IdleExtract /\ InitChunks /\ IdleEngine /\ IdleEncrypt
    /\ IdleInverted
    /\ IdleLock
    /\ IdleFfi

SpecChunks == InitChunksSpec /\ [][NextChunks]_vars

InitIngestSpec ==
    IdleSearch /\ IdleWatcher /\ IdleLibsWatcher /\ IdleCore /\ IdleGraph
    /\ IdleExtract /\ IdleChunks /\ InitIngest /\ IdleEncrypt
    /\ IdleInverted
    /\ IdleLock
    /\ IdleFfi

SpecIngest == InitIngestSpec /\ [][NextIngest]_vars

InitEncryptSpec ==
    IdleSearch /\ IdleWatcher /\ IdleLibsWatcher /\ IdleCore /\ IdleGraph
    /\ IdleExtract /\ IdleChunks /\ IdleEngine /\ EncryptionEngineNew
    /\ IdleInverted
    /\ IdleLock
    /\ IdleFfi

SpecEncrypt == InitEncryptSpec /\ [][NextEncrypt]_vars

SpecIndexer == InitCoreSpec /\ [][NextIndexer]_vars

SpecInverted == InitIdleSpec /\ [][NextInverted]_vars

SpecFuzzy == InitSearchSpec /\ [][NextFuzzy]_vars

SpecGraphQuery == InitGraphSpec /\ [][NextGraphQuery]_vars

InitLockSpec ==
    IdleSearch /\ IdleWatcher /\ IdleLibsWatcher /\ InitCore /\ IdleGraph
    /\ IdleIngestEncrypt /\ IdleInverted /\ CoreLocksNew
    /\ IdleFfi

SpecLock == InitLockSpec /\ [][NextLock]_vars

SpecFfi == InitIdleSpec /\ [][NextFfi]_vars
(***************************************************************************)
(* Claims about the libs/search index.                                     *)
(***************************************************************************)
\* the ids of the stored documents whose token set contains t
DocsContaining(t) ==
    {d \in DOMAIN documents : t \in Range(all_tokens(documents[d].document))}

StoredTerms == UNION {Range(all_tokens(documents[d].document)) : d \in DOMAIN documents}

\* C1: for every term t, document_frequencies[t] is the number of stored
\* documents whose token set contains t and inverted_index[t] is exactly that
\* set of ids (terms contained in no stored document have no entry).
C1_IndexCoherence ==
    /\ DOMAIN document_frequencies = StoredTerms
    /\ DOMAIN inverted_index = StoredTerms
    /\ \A t \in StoredTerms :
          /\ document_frequencies[t] = Cardinality(DocsContaining(t))
          /\ inverted_index[t] = DocsContaining(t)

\* C2: add_document called again with the Document of the immediately
\* preceding add_document call leaves total_documents, inverted_index and
\* document_frequencies as they were after the first call.
C2_AddIdempotent ==
    [][(/\ last_call.op = "add_document"
        /\ last_call'.op = "add_document"
        /\ n_ops' = n_ops + 1
        /\ last_call'.document = last_call.document)
       => (/\ total_documents' = total_documents
           /\ inverted_index' = inverted_index
           /\ document_frequencies' = document_frequencies)]_vars


(***************************************************************************)
(* Claims about SearchEngine::search.                                      *)
(***************************************************************************)
\* the stored documents whose tokens contain the token of the word w
Docs(w) ==
    {d \in DOMAIN documents :
        Range(tokenize(<<w>>)) \subseteq Range(all_tokens(documents[d].document))}

\* the last call was a successful search in the given mode, not paginated
Searched(mode) ==
    /\ last_call.op = "search"
    /\ last_call.result = "Ok"
    /\ last_call.query.search_mode = mode
    /\ last_call.query.limit = None
    /\ last_call.query.offset = None

ResultIds == {last_call.results[i].document_id : i \in DOMAIN last_call.results}

\* every returned document is returned once
EachOnce == Cardinality(ResultIds) = Len(last_call.results)

\* the operands of "a AND b [AND c ...]"; no operand when the text has
\* another form
AndOperands(text) ==
    IF /\ Len(text) >= 3
       /\ Len(text) % 2 = 1
       /\ \A i \in DOMAIN text : (i % 2 = 0) <=> (text[i] = "AND")
       THEN {text[i] : i \in {k \in DOMAIN text : k % 2 = 1}}
       ELSE {}

\* C16: a Boolean search for "a AND b [AND c ...]" returns exactly the stored
\* documents that contain every operand, each once, with score 1.0; none
\* when an operand occurs in no document.
C16_BooleanAnd ==
    (Searched("Boolean") /\ AndOperands(last_call.query.query) # {})
       => /\ ResultIds = {d \in DOMAIN documents :
                            \A w \in AndOperands(last_call.query.query) :
                               d \in Docs(w)}
          /\ EachOnce
          /\ \A i \in DOMAIN last_call.results :
                last_call.results[i].score = ScoreUnit

\* C17: in a Boolean search AND binds tighter than OR: "a OR b AND c"
\* returns docs(a) \cup (docs(b) \cap docs(c)) and "a AND b OR c" returns
\* (docs(a) \cap docs(b)) \cup docs(c).
C17_AndBindsTighter ==
    LET text == last_call.query.query
    IN  (Searched("Boolean") /\ Len(text) = 5)
           => /\ (text[2] = "OR" /\ text[4] = "AND")
                    => ResultIds = Docs(text[1])
                                      \cup (Docs(text[3]) \cap Docs(text[5]))
              /\ (text[2] = "AND" /\ text[4] = "OR")
                    => ResultIds = (Docs(text[1]) \cap Docs(text[3]))
                                      \cup Docs(text[5])

\* the tokens of the last query
QueryTokens == Range(tokenize(last_call.query.query))

\* the position of a returned document in the result list
PositionOf(d) == CHOOSE i \in DOMAIN last_call.results :
                    last_call.results[i].document_id = d

\* C18: a Standard search returns exactly the stored documents that contain
\* at least one query token, each once, in order of non-increasing score,
\* and a document that matches a term occurring in fewer than all documents
\* comes before one that matches only terms occurring in all documents.
C18_StandardSearch ==
    Searched("Standard")
       => /\ ResultIds = {d \in DOMAIN documents :
                            QueryTokens \cap Range(all_tokens(documents[d].document))
                               # {}}
          /\ EachOnce
          /\ \A i \in 1..(Len(last_call.results) - 1) :
                last_call.results[i].score >= last_call.results[i + 1].score
          /\ \A d, e \in ResultIds :
                (/\ \E t \in QueryTokens :
                       /\ d \in DocsContaining(t)
                       /\ DocsContaining(t) # DOMAIN documents
                 /\ \A t \in QueryTokens :
                       e \in DocsContaining(t)
                          => DocsContaining(t) = DOMAIN documents)
                   => PositionOf(d) < PositionOf(e)

\* C21: a search for the empty text returns Ok with no results in the
\* Standard, Fuzzy, Boolean and Wildcard modes, whatever is indexed.
C21_EmptyQueryEmptyResult ==
    (/\ last_call.op = "search"
     /\ last_call.query.query = <<>>
     /\ last_call.query.search_mode \in {"Standard", "Fuzzy", "Boolean", "Wildcard"})
       => (last_call.result = "Ok" /\ last_call.results = <<>>)

\* C22: the result order is a deterministic total order: a search repeated
\* with the same query on the same index returns the same sequence of
\* document ids.
C22_DeterministicOrder ==
    [][(/\ last_call.op = "search"
        /\ last_call'.op = "search"
        /\ last_call'.query = last_call.query)
       => last_call'.results = last_call.results]_vars

\* the stored tokens of a document that is indexed
TokensOf(d) == Range(all_tokens(documents[d].document))

\* the tolerance of the Fuzzy mode with the lengths counted in characters
WithinCharTolerance(q, t) ==
    LET longest == IF chars_count(q) > chars_count(t)
                      THEN chars_count(q) ELSE chars_count(t)
    IN  levenshtein_distance(q, t) <= longest \div 3

ReturnedIds == {last_call.results[i].document_id : i \in DOMAIN last_call.results}

\* C32: a search in the Fuzzy mode returns a document if and only if it
\* holds a term whose Levenshtein distance to some token of the query is at
\* most a third (rounded down) of the longer of the two lengths, the lengths
\* counted in characters.
C32_FuzzyTolerance ==
    (/\ last_call.op = "search"
     /\ last_call.query.search_mode = "Fuzzy"
     /\ last_call.result = "Ok")
       => ReturnedIds =
             {d \in DOMAIN documents :
                 \E q \in Range(tokenize(last_call.query.query)) :
                    \E t \in TokensOf(d) : WithinCharTolerance(q, t)}
(***************************************************************************)
(* Claims about the rust-core FileWatcher.                                 *)
(***************************************************************************)
\* the events of a sequence that name path, in their order
PathEvents(events, path) == SelectSeq(events, LAMBDA e : e.file_path = path)

IsPrefix(s, t) == Len(s) <= Len(t) /\ SubSeq(t, 1, Len(s)) = s

\* C6: events for the same path less than a coalescing window apart are
\* collapsed into one: the callback never receives two events for one path
\* whose timestamps are less than 200 ms apart.
C6_Coalesced ==
    \A i, j \in DOMAIN fw_delivered :
        (i < j /\ fw_delivered[i].file_path = fw_delivered[j].file_path)
        => fw_delivered[j].timestamp - fw_delivered[i].timestamp
              >= CoalesceWindowTicks

\* C7: for every path the callbacks of a run are a prefix of the events the
\* notify closure sent for that path, in the same order and each once; while
\* the task runs nothing is lost: callbacks plus queued events are exactly
\* the events sent.
C7_PerPathOrder ==
    \A path \in FilePaths :
        /\ IsPrefix(PathEvents(fw_delivered, path), PathEvents(fw_sent, path))
        /\ fw_task = "running"
              => PathEvents(fw_delivered, path) \o PathEvents(fw_queue, path)
                    = PathEvents(fw_sent, path)

\* C7 witness: the task has delivered two events for one path and one for
\* another path in between or around them.
C7_Witness ==
    /\ fw_task = "running"
    /\ \E p, q \in FilePaths :
          /\ p # q
          /\ Len(PathEvents(fw_delivered, p)) >= 2
          /\ Len(PathEvents(fw_delivered, q)) >= 1

\* C8: a stop() call on a started watcher that has reached its await returns,
\* with is_running false.
C8_StopReturns ==
    (fw_stop_pc = "closed_await") ~> (fw_stop_pc = "idle" /\ ~fw_is_running)

\* the fields of the FileWatcher and its channel
WatcherState == <<fw_watch_paths, fw_watcher, fw_is_running, fw_event_sender,
                  fw_task, fw_queue, fw_stop_pc>>

\* C9 as claimed: start() on a running watcher, stop() on a watcher that is
\* not running, add_watch_path of a path in watch_paths and remove_watch_path
\* of a path not in watch_paths change nothing and return success.
C9_NoOpsReturnOk ==
    [][/\ (fw_is_running /\ FwStart)
            => (UNCHANGED WatcherState /\ fw_last_call'.result = "Ok")
       /\ (~fw_is_running /\ FwStopBegin)
            => (UNCHANGED WatcherState /\ fw_last_call'.result = "Ok")
       /\ \A path \in Dirs :
            /\ (path \in Range(fw_watch_paths) /\ FwAddWatchPath(path))
                 => (UNCHANGED WatcherState /\ fw_last_call'.result = "Ok")
            /\ (path \notin Range(fw_watch_paths) /\ FwRemoveWatchPath(path))
                 => (UNCHANGED WatcherState /\ fw_last_call'.result = "Ok")
      ]_vars

\* C9 amended: the four calls change nothing; start, stop and
\* remove_watch_path return success, add_watch_path of a path in watch_paths
\* returns success when the path still exists on disk and an error when it
\* does not.
C9_NoOps ==
    [][/\ (fw_is_running /\ FwStart)
            => (UNCHANGED WatcherState /\ fw_last_call'.result = "Ok")
       /\ (~fw_is_running /\ FwStopBegin)
            => (UNCHANGED WatcherState /\ fw_last_call'.result = "Ok")
       /\ \A path \in Dirs :
            /\ (path \in Range(fw_watch_paths) /\ FwAddWatchPath(path))
                 => /\ UNCHANGED WatcherState
                    /\ fw_last_call'.result =
                          IF path \in dirs_exist THEN "Ok" ELSE "Err"
            /\ (path \notin Range(fw_watch_paths) /\ FwRemoveWatchPath(path))
                 => (UNCHANGED WatcherState /\ fw_last_call'.result = "Ok")
      ]_vars

\* C9 witness: add_watch_path("/a") returned Ok on a running watcher whose
\* watch_paths already held "/a" before "/b" (a first add would have put
\* "/a" last).
C9_Witness ==
    /\ fw_last_call = Call("add_watch_path", "/a", "Ok")
    /\ fw_watch_paths = <<"/a", "/b">>
    /\ fw_is_running

(***************************************************************************)
(* Claims about the libs FileWatcher.                                      *)
(***************************************************************************)
\* C10: once the watcher of a start_watching call is dropped (stop, drop or
\* a later start_watching), both threads of that call terminate.
C10_ThreadsTerminate ==
    \A g \in 1..MaxStarts :
        (g \in DOMAIN lw_threads /\ ~lw_threads[g].tx_alive)
        ~> (/\ g \in DOMAIN lw_threads
            /\ lw_threads[g].fs_pc = "exited"
            /\ lw_threads[g].cb_pc = "exited")

\* C11: after watch_path(p, recursive) returned Ok, p is in
\* get_watched_paths(), also on a watcher that was never started; after
\* unwatch_path(p) returned Ok, p is not in get_watched_paths().
C11_WatchedPathsFollowCalls ==
    /\ (lw_last_call.op = "watch_path" /\ lw_last_call.result = "Ok")
          => lw_last_call.arg \in get_watched_paths
    /\ (lw_last_call.op = "unwatch_path" /\ lw_last_call.result = "Ok")
          => lw_last_call.arg \notin get_watched_paths

(***************************************************************************)
(* Claims about the rust-core AutoOrganizeCore.                            *)
(***************************************************************************)
\* C3: once delete_document(id) has returned Ok nothing references id: no
\* documents row, no documents_fts row, no document_chunks or entity_mentions
\* row, and no posting of the search engine's in-memory index.
C3_DeleteLeavesNothing ==
    (core_last_call.op = "delete_document" /\ core_last_call.result = "Ok")
    => LET id == core_last_call.arg
       IN  /\ \A r \in db_documents : r.id # id
           /\ \A i \in DOMAIN db_documents_fts :
                 db_documents_fts[i].content_id # id
           /\ \A r \in db_document_chunks : r.document_id # id
           /\ \A r \in db_entity_mentions : r.document_id # id
           /\ \A t \in DOMAIN idx_term_frequencies :
                 id \notin DOMAIN idx_term_frequencies[t]

\* C4: two ingest_file calls that read the same bytes from the same path
\* yield the same document id and the same content_hash (the second call
\* produces no new document).
C4_ReingestSameDocument ==
    \A i, j \in DOMAIN ie_processed :
        (/\ i < j
         /\ ie_processed[i].file_path = ie_processed[j].file_path
         /\ ie_processed[i].content = ie_processed[j].content)
        => /\ ie_processed[i].id = ie_processed[j].id
           /\ ie_processed[i].content_hash = ie_processed[j].content_hash

\* the started watcher of the core has accepted a Created event for path
CreatedSent(path) ==
    /\ core_file_watcher = "Some"
    /\ \E i \in DOMAIN fw_sent :
          /\ fw_sent[i].file_path = path
          /\ fw_sent[i].event_type.tag = "Created"

\* the store holds a document of the file and a search for one of the file's
\* words returns it
Searchable(path) ==
    /\ path \in DOMAIN fs_files
    /\ \E d \in db_documents :
          /\ d.file_path = path
          /\ \E i \in DOMAIN fs_files[path] :
                d.id \in fts_search(fs_files[path][i])

\* C5: once the core's watcher is started, creating a supported file in the
\* watched directory eventually makes its document searchable, whatever the
\* client does or does not do afterwards.
C5_CreatedLeadsToSearchable ==
    \A path \in {p \in CoreFilePaths :
                    is_supported_file(p) /\ ~should_ignore_file(p)} :
        CreatedSent(path) ~> Searchable(path)


\* the ids of the documents rows whose tokens contain term t
RowsContaining(t) ==
    {r.id : r \in {x \in db_documents :
                     t \in Range(tokenize_and_stem(x.content))}}

\* C13: after rebuild_index returned Ok the in-memory index holds, for every
\* term, postings for exactly the documents rows that contain it (none for a
\* document that is not in the table), and document_count is the number of
\* rows of the documents table.
C13_RebuildReflectsTable ==
    (core_last_call.op = "rebuild_index" /\ core_last_call.result = "Ok")
       => /\ \A t \in DOMAIN idx_term_frequencies :
                DOMAIN idx_term_frequencies[t] = RowsContaining(t)
          /\ \A r \in db_documents :
                \A t \in Range(tokenize_and_stem(r.content)) :
                   /\ t \in DOMAIN idx_term_frequencies
                   /\ r.id \in DOMAIN idx_term_frequencies[t]
          /\ idx_document_count = Cardinality(db_documents)

\* C14: documents_fts holds exactly one row per row of documents, with the
\* same id, title and content, and no other row.
C14_FtsMirrorsDocuments ==
    /\ Range(db_documents_fts) = {fts_row(r) : r \in db_documents}
    /\ Len(db_documents_fts) = Cardinality(db_documents)

\* the ids that have postings in the index
IndexedIds ==
    UNION {DOMAIN idx_term_frequencies[t] : t \in DOMAIN idx_term_frequencies}

\* C15: document_count is the number of distinct ids indexed and not removed,
\* so no document frequency exceeds it and ln(document_count / df) is never
\* negative.
C15_DocumentCountCoherent ==
    /\ idx_document_count = Cardinality(IndexedIds)
    /\ \A t \in DOMAIN idx_document_frequencies :
          idx_document_frequencies[t] <= idx_document_count

\* the last call was a search_documents call
SearchedDocuments == core_last_call.op = "search_documents"

\* C19: a search with options.semantic_search = true returns an error
\* (NOT_IMPLEMENTED), never a successful result.
C19_SemanticNotImplemented ==
    (SearchedDocuments /\ core_last_call.arg.options.semantic_search)
       => core_last_call.result = "Err"

\* C20: a search returns the elements at positions [offset, offset + limit)
\* of the complete ranked list of the matching documents: as many results as
\* there are such positions, each a different matching document; none, and
\* no error, when offset is at or beyond the number of matches.
C20_Pagination ==
    (SearchedDocuments /\ core_last_call.result = "Ok")
       => LET options == core_last_call.arg.options
              limit == unwrap_or(options.limit, 20)
              offset == unwrap_or(options.offset, 0)
              matches == fts_search(core_last_call.arg.text)
              positions == {p \in offset..(offset + limit - 1) :
                               p < Cardinality(matches)}
          IN  /\ Len(core_search_results) = Cardinality(positions)
              /\ Range(core_search_results) \subseteq matches
              /\ Cardinality(Range(core_search_results))
                    = Len(core_search_results)

PostingsOf(document_id) ==
    {t \in DOMAIN idx_term_frequencies :
        document_id \in DOMAIN idx_term_frequencies[t]}

\* C30: FullTextIndexer.remove_document(id) reverses the indexing of id:
\* afterwards no posting map contains id, the df of every term id contained
\* is lower by exactly one, a term whose df reached 0 is in neither map, the
\* other terms are untouched, and for every remaining term t
\* document_frequencies[t] = |term_frequencies[t]|, both maps having the same
\* keys.
C30_RemoveReversesIndexing ==
    [][(/\ core_last_call'.op = "FullTextIndexer::remove_document"
        /\ core_ops' = core_ops + 1)
       => LET id == core_last_call'.arg
              contained == PostingsOf(id)
              df_after(t) == IF t \in DOMAIN idx_document_frequencies'
                             THEN idx_document_frequencies'[t] ELSE 0
          IN /\ \A t \in DOMAIN idx_term_frequencies' :
                    id \notin DOMAIN idx_term_frequencies'[t]
             /\ \A t \in contained :
                    df_after(t) = idx_document_frequencies[t] - 1
             /\ \A t \in DOMAIN idx_document_frequencies' :
                    /\ idx_document_frequencies'[t] > 0
                    /\ idx_document_frequencies'[t]
                         = Cardinality(DOMAIN idx_term_frequencies'[t])
             /\ DOMAIN idx_term_frequencies' = DOMAIN idx_document_frequencies'
             /\ \A t \in (DOMAIN idx_term_frequencies) \ contained :
                    /\ t \in DOMAIN idx_term_frequencies'
                    /\ idx_term_frequencies'[t] = idx_term_frequencies[t]
                    /\ idx_document_frequencies'[t] = idx_document_frequencies[t]
      ]_vars

\* two documents sharing a term were indexed and one of them was removed: the
\* shared term stays with df 1, the other terms of the removed one are gone
C30_Witness ==
    /\ core_last_call.op = "FullTextIndexer::remove_document"
    /\ core_last_call.removed_from = {"alpha", "beta"}
    /\ PostingsOf(core_last_call.arg) = {}
    /\ DOMAIN idx_document_frequencies = {"alpha", "file"}
    /\ idx_document_frequencies["alpha"] = 1
    /\ DOMAIN idx_term_frequencies["alpha"] = CoreDocIds \ {core_last_call.arg}

Occurrences(tokens, term) ==
    Cardinality({k \in 1..Len(tokens) : tokens[k] = term})

\* C31: after any sequence of InvertedIndex.add_document calls, also two for
\* the same id, there is at most one posting per (term, document), its
\* positions are strictly increasing and lie in [0, |tokens(d)|), and its
\* term_frequency is the number of occurrences of the term in d divided by
\* |tokens(d)|.
C31_PostingsWellFormed ==
    \A t \in DOMAIN inv_index :
        \A i \in 1..Len(inv_index[t]) :
            LET posting == inv_index[t][i]
                tokens == inv_documents[posting.document_id]
            IN /\ \A j \in 1..Len(inv_index[t]) :
                    inv_index[t][j].document_id = posting.document_id => j = i
               /\ \A k \in 1..Len(posting.positions) :
                    /\ posting.positions[k] \in 0..(Len(tokens) - 1)
                    /\ k > 1 => posting.positions[k - 1] < posting.positions[k]
               /\ posting.term_frequency[2] # 0
               /\ posting.term_frequency[1] * Len(tokens)
                    = Occurrences(tokens, t) * posting.term_frequency[2]

\* the positions at which a call is running a statement that changes the
\* database
MutatingPositions == {"db_initialize", "db_delete_document"}

\* C37: a thread that is running a database mutation of AutoOrganizeCore
\* (initialize, delete_document) holds the database RwLock in write mode, so
\* no other thread holds a guard of it at that time.
C37_MutationsHoldWriteGuard ==
    \A t \in Threads :
        lk_pc[t].at \in MutatingPositions
           => /\ lk_database.writer = t
              /\ lk_database.readers = {}
(***************************************************************************)
(* Claims about the GraphDatabase.                                         *)
(***************************************************************************)
\* the relationship records stored under their ids
LiveRelationships ==
    {gdb_relationships[k] : k \in (DOMAIN gdb_relationships) \cap RelIds}

\* list holds exactly the given ids, each once
HoldsExactly(list, ids) == Range(list) = ids /\ Len(list) = Cardinality(ids)

\* C12: the list under "source:e" holds exactly the ids of the live
\* relationships with source e, "target:e" those with target e, "type:k"
\* those of type k, each id once; get_entity_relationships(e) returns only
\* live ids.
C12_GraphIndexCoherent ==
    /\ \A e \in EntityIds :
          /\ HoldsExactly(stored_list(gdb_relationships, source_key(e)),
                          {r.id : r \in {x \in LiveRelationships :
                                            x.source_entity_id = e}})
          /\ HoldsExactly(stored_list(gdb_relationships, target_key(e)),
                          {r.id : r \in {x \in LiveRelationships :
                                            x.target_entity_id = e}})
          /\ Range(get_entity_relationships(gdb_relationships, e))
                \subseteq {r.id : r \in LiveRelationships}
    /\ \A k \in RelTypes :
          HoldsExactly(stored_list(gdb_relationships, type_key(k)),
                       {r.id : r \in {x \in LiveRelationships :
                                         x.relationship_type = k}})

\* the entities one live relationship away from an entity of the set, in
\* either direction
LiveNeighbours(entities) ==
    {r.target_entity_id : r \in {x \in LiveRelationships :
                                    x.source_entity_id \in entities}}
       \cup {r.source_entity_id : r \in {x \in LiveRelationships :
                                            x.target_entity_id \in entities}}

\* the entities at distance at most k from e over the live relationships
RECURSIVE Within(_, _)
Within(e, k) ==
    IF k = 0 THEN {e} ELSE Within(e, k - 1) \cup LiveNeighbours(Within(e, k - 1))

\* the distance of an entity that is within MaxDepth + 1 of e
Distance(e, x) == CHOOSE k \in 0..(MaxDepth + 1) :
                     x \in Within(e, k) /\ \A j \in 0..(k - 1) : x \notin Within(e, j)

\* C35: get_connected_entities(e, max_depth) returns exactly the entities at
\* distance 1..max_depth from e over the live relationships taken in both
\* directions, each once and never e, in the order of their distance.
C35_ConnectedEntities ==
    gdb_last_call.op = "get_connected_entities"
       => LET e == gdb_last_call.arg
              value == gdb_last_call.value
          IN  /\ Range(value) = Within(e, gdb_last_call.max_depth) \ {e}
              /\ Len(value) = Cardinality(Range(value))
              /\ \A i \in 1..(Len(value) - 1) :
                    Distance(e, value[i]) <= Distance(e, value[i + 1])

\* C36: find_shortest_path(src, dst) returns None exactly when dst cannot be
\* reached from src over the live relationships; otherwise a path from src
\* to dst whose consecutive entities are joined by a live relationship, with
\* no entity twice and of the least length; [src] when src = dst.
C36_ShortestPath ==
    gdb_last_call.op = "find_shortest_path"
       => LET src == gdb_last_call.arg
              dst == gdb_last_call.target
              value == gdb_last_call.value
              path == Unwrap(value)
          IN  /\ value = None <=> dst \notin Within(src, Cardinality(PathEntityIds))
              /\ value # None =>
                    /\ path[1] = src
                    /\ path[Len(path)] = dst
                    /\ Len(path) = Cardinality(Range(path))
                    /\ \A i \in 1..(Len(path) - 1) :
                          path[i + 1] \in LiveNeighbours({path[i]})
                    /\ Len(path) >= 2 => dst \notin Within(src, Len(path) - 2)
                    /\ src = dst => path = <<src>>

(***************************************************************************)
(* Claims about the rust-core ingestion engine.                            *)
(***************************************************************************)
Disjoint(a, b) ==
    \/ a.end_position <= b.start_position
    \/ b.end_position <= a.start_position

PairwiseDisjoint(entities) ==
    \A i, j \in 1..Len(entities) :
        i # j => Disjoint(entities[i], entities[j])

\* C23: the entities RegexEntityExtractor.extract_entities returns have
\* pairwise non-overlapping half-open spans, whatever the patterns matched.
C23_RegexEntitiesDisjoint ==
    ee_last_call = "RegexEntityExtractor" => PairwiseDisjoint(ee_entities)

\* two patterns matched overlapping spans and the extractor returned a result
C23_Witness ==
    /\ ee_last_call = "RegexEntityExtractor"
    /\ Len(ee_entities) >= 2
    /\ ~PairwiseDisjoint(regex_candidates(ee_text, ee_pattern_matches, 1))

\* C24: CompositeEntityExtractor.extract_entities resolves overlaps among the
\* merged candidates of its sub-extractors: its result is pairwise disjoint.
C24_CompositeEntitiesDisjoint ==
    ee_last_call = "CompositeEntityExtractor" => PairwiseDisjoint(ee_entities)

ChunkLen(chunk) == chunk.end_idx - chunk.start_idx

\* C25: for a content of at least one word, chunk_size >= 1 and
\* chunk_overlap < chunk_size, create_chunks returns chunks that cover every
\* word, leave no gap (each next chunk starts at or before the word after the
\* previous chunk's last word and repeats min(chunk_overlap, chunk_size - 1)
\* words), are numbered 0, 1, 2, ..., and hold at most chunk_size words, only
\* the last one possibly fewer.
C25_ChunksCoverContent ==
    (/\ ck_result # None
     /\ Len(ck_words) >= 1
     /\ ck_config.chunk_size >= 1
     /\ ck_config.chunk_overlap < ck_config.chunk_size)
    => LET chunks == Unwrap(ck_result).chunks
           n == Len(chunks)
       IN /\ Unwrap(ck_result).returned
          /\ \A w \in 1..Len(ck_words) :
                \E i \in 1..n :
                    \E k \in 1..Len(chunks[i].content) :
                       chunks[i].content[k] = ck_words[w]
          /\ \A i \in 1..n :
                /\ chunks[i].chunk_index = i - 1
                /\ Len(chunks[i].content) <= ck_config.chunk_size
                /\ i < n => Len(chunks[i].content) = ck_config.chunk_size
          /\ \A i \in 1..(n - 1) :
                /\ chunks[i + 1].start_idx <= chunks[i].end_idx
                /\ chunks[i].end_idx - chunks[i + 1].start_idx
                     = Min(ck_config.chunk_overlap, ck_config.chunk_size - 1)
                /\ SubSeq(chunks[i].content,
                          ChunkLen(chunks[i]) - ck_config.chunk_overlap + 1,
                          ChunkLen(chunks[i]))
                     = SubSeq(chunks[i + 1].content, 1, ck_config.chunk_overlap)

\* a content chunked into three chunks that overlap and end in a shorter one
C25_Witness ==
    /\ ck_result # None
    /\ ck_config.chunk_size >= 2
    /\ ck_config.chunk_overlap >= 1
    /\ ck_config.chunk_overlap < ck_config.chunk_size
    /\ Len(Unwrap(ck_result).chunks) >= 3
    /\ Len(Unwrap(ck_result).chunks[Len(Unwrap(ck_result).chunks)].content)
         < ck_config.chunk_size

IngestedFile == ing_entries[ing_last_call.arg]

C27_OneNotificationPerFile ==
    (ing_last_call.op = "ingest_file"
        /\ ing_last_call.outcome.result \in {"Ok", "Err"})
    => /\ Len(ing_notified) = 1
       /\ ing_notified[1].op = IF ing_last_call.outcome.result = "Ok"
                               THEN "on_document_processed" ELSE "on_error"

\* the supported files among the first k entries of the directory, in order
RECURSIVE SupportedFound(_)
SupportedFound(k) ==
    IF k = 0 THEN <<>>
    ELSE IF /\ ing_entries[k].kind = "file"
            /\ ing_entries[k].ext \in supported_extensions
         THEN Append(SupportedFound(k - 1), k)
         ELSE SupportedFound(k - 1)

Succeeds(path) ==
    ingest_file(ing_config, ing_overflow_checks, path).result = "Ok"

RECURSIVE DocumentsOf(_)
DocumentsOf(files) ==
    IF files = <<>> THEN <<>>
    ELSE (IF Succeeds(Head(files))
          THEN << ingest_file(ing_config, ing_overflow_checks,
                              Head(files)).document >>
          ELSE <<>>) \o DocumentsOf(Tail(files))

\* C28: ingest_directory attempts every supported file found, in order; a
\* failing file gives on_error and the next file is processed; after the k-th
\* file on_progress(k, total) is emitted once, for k = 1..total; the call
\* returns the documents of the files that succeeded.
C28_DirectoryContinues ==
    (ing_last_call.op = "ingest_directory" /\ ing_last_call.arg)
    => LET files == SupportedFound(Len(ing_entries))
           total == Len(files)
       IN /\ ing_last_call.outcome.result = "Ok"
          /\ Len(ing_notified) = 2 * total
          /\ \A k \in 1..total :
                /\ ing_notified[2 * k]
                     = [op |-> "on_progress", processed |-> k, total |-> total]
                /\ IF Succeeds(files[k])
                   THEN /\ ing_notified[2 * k - 1].op = "on_document_processed"
                        /\ ing_notified[2 * k - 1].document.file_path = files[k]
                   ELSE /\ ing_notified[2 * k - 1].op = "on_error"
                        /\ ing_notified[2 * k - 1].file_path = files[k]
          /\ ing_last_call.outcome.documents = DocumentsOf(files)

\* C33: RegexEntityExtractor.extract_entities discards a candidate only if an
\* entity it keeps overlaps the candidate and has a confidence at least as
\* high as the candidate's.
C33_HigherConfidenceKept ==
    ee_last_call = "RegexEntityExtractor"
       => \A i \in 1..Len(regex_candidates(ee_text, ee_pattern_matches, 1)) :
             LET candidate == regex_candidates(ee_text, ee_pattern_matches, 1)[i]
             IN  \/ \E j \in 1..Len(ee_entities) : ee_entities[j] = candidate
                 \/ \E j \in 1..Len(ee_entities) :
                       /\ overlaps(candidate, ee_entities[j])
                       /\ ee_entities[j].confidence >= candidate.confidence

\* C34: for every chunk create_chunks emits, whatever whitespace the content
\* holds, end_position - start_position is the length of the chunk's text and
\* the content at [start_position, end_position) is the chunk's text.
C34_ChunkSpans ==
    (ck_result # None /\ Unwrap(ck_result).returned)
       => \A i \in 1..Len(Unwrap(ck_result).chunks) :
             LET chunk == Unwrap(ck_result).chunks[i]
             IN  /\ chunk.end_position - chunk.start_position
                      = Len(join(chunk.content))
                 /\ SubSeq(ck_content, chunk.start_position + 1,
                           chunk.end_position) = join(chunk.content)

\* C40: for every chunk_size >= 1 and every chunk_overlap, also one that is
\* at least chunk_size or larger than the number of words read so far,
\* create_chunks returns without an underflow of its index arithmetic, the
\* start index grows from chunk to chunk, and every word is in some chunk.
C40_ChunkIndexArithmetic ==
    (ck_result # None /\ ck_config.chunk_size >= 1)
       => LET chunks == Unwrap(ck_result).chunks
          IN  /\ Unwrap(ck_result).returned
              /\ \A i \in 1..(Len(chunks) - 1) :
                    chunks[i].start_idx < chunks[i + 1].start_idx
              /\ \A w \in 1..Len(ck_words) :
                    \E i \in 1..Len(chunks) :
                       chunks[i].start_idx < w /\ w <= chunks[i].end_idx

\* C39: with the default supported_extensions, an ingest_file call whose path
\* validate_file accepts never fails for want of a processor.
C39_ValidatedHasProcessor ==
    (/\ ing_last_call.op = "ingest_file"
     /\ ie_exists(ing_last_call.arg)
     /\ ie_validate_file(ing_config, IngestedFile) = "Ok")
       => ~(/\ ing_last_call.outcome.result = "Err"
            /\ ing_last_call.outcome.error = "No processor found")

(***************************************************************************)
(* Claims about libs/encryption.                                           *)
(***************************************************************************)
Decrypted ==
    /\ enc_last_call.op = "decrypt_data"
    /\ enc_last_call.result = "Ok"

FailsAuthentication ==
    \/ Unwrap(enc_message).ciphertext # Unwrap(enc_origin).encrypted.ciphertext
    \/ Unwrap(enc_message).tag # Unwrap(enc_origin).encrypted.tag
    \/ Unwrap(enc_message).nonce # Unwrap(enc_origin).encrypted.nonce
    \/ Unwrap(enc_master_key) # Unwrap(enc_origin).key

\* C29: decrypt_data never yields plaintext for data that fails
\* authentication: after a change of the ciphertext, tag or nonce, or under a
\* different key, the result has verified = false and an empty plaintext;
\* verified = true comes only with the exact bytes that were encrypted.
C29_NoPlaintextWithoutAuthentication ==
    Decrypted
    => /\ FailsAuthentication
            => (~enc_last_call.verified /\ enc_last_call.plaintext = <<>>)
       /\ enc_last_call.verified
            => enc_last_call.plaintext = Unwrap(enc_origin).plaintext

\* C38: an FFI operation called with a handle acts on the engine created for
\* that handle, with that engine's key, also after another handle was
\* created or destroyed.
C38_HandleIsolation ==
    /\ ffi_last_call.op \in {"initialize_with_password", "encrypt_data"}
          => ffi_last_call.engine = Some(ffi_last_call.handle)
    /\ ffi_last_call.op = "encrypt_data"
          => /\ ffi_last_call.key = ffi_engines[ffi_last_call.handle].master_key
             /\ ffi_last_call.result
                   = (ffi_engines[ffi_last_call.handle].master_key # None)
====
